---- MODULE Spec2Model ----
(***************************************************************************)
(* Three-way text merge (diff3) of merge-engine/src/diff3.rs.              *)
(*                                                                         *)
(* A text is a sequence of one-character strings.  A line is a text        *)
(* without its terminator.  Indices kept by the program (base_idx, bi,     *)
(* lei, rei) are 0-based as in the source; a TLA+ sequence is indexed      *)
(* from 1, so element i of the program is s[i + 1] here.                   *)
(*                                                                         *)
(* The line diff itself is the `similar` crate (TextDiff::from_lines with  *)
(* the default Myers algorithm, captured through its Compact and Replace   *)
(* hooks).  It is modelled by its contract: the changes follow a longest   *)
(* common subsequence of the two token lists, and between two matched      *)
(* tokens every Delete comes before every Insert.  Which of several        *)
(* longest common subsequences is taken is left open, but it is a function *)
(* of the two texts: equal targets get equal change lists.                 *)
(***************************************************************************)
EXTENDS Integers, Sequences, FiniteSets, TLC

VARIABLES
    base, left, right,          \* the MergeScenario
    base_lines,                 \* diff3_hunks: scenario.base.lines()
    left_edits, right_edits,    \* diff3_hunks: compute_edits(base, left / right)
    bi, lei, rei,               \* diff3_hunks: walk indices
    hunks,                      \* diff3_hunks: the hunk list before coalescing
    last,                       \* history: what the last loop iteration read and pushed
    iters,                      \* history: number of loop iterations started
    panicked,                   \* an index out of bounds aborted the walk
    coalesced,                  \* value returned by diff3_hunks
    result,                     \* value returned by diff3_merge
    conflicts,                  \* value returned by extract_conflicts
    text,                       \* parse_conflict_markers: its argument
    lines,                      \* parse_conflict_markers: text.lines()
    trace,                      \* history: the parser's locals after each line
    parsed,                     \* value returned by parse_conflict_markers
    region,                     \* the conflict region (base, left, right) given to the emitter
    args,                       \* main: std::env::args(), the program name first
    check_mode,                 \* main: args[1] == "--check"
    file_args,                  \* main: the arguments after the mode flag
    read_log,                   \* history: the files read so far, and whether the read succeeded
    resolver_calls,             \* history: number of calls of the resolver
    file_result,                \* main: value returned by resolver.resolve_file
    writes,                     \* history: the std::fs::write calls, and whether they succeeded
    stdout,                     \* the bytes printed to standard output
    stderr,                     \* the messages printed to standard error
    exit_code,                  \* the process exit code, -1 while running
    stdin,                      \* the standard input: whether it can be read, and its bytes
    input,                      \* resolve_stdin: the text read from stdin
    output,                     \* resolve_stdin: the text being rewritten
    all_resolved,               \* resolve_stdin: no conflict without a resolution so far
    resolutions,                \* history: what resolve_conflict returned, in call order
    language,                   \* ResolverConfig: the configured language, "None" without one
    record,                     \* resolve_conflict: the conflict record it builds and returns
    outputs,                    \* history: what each strategy run so far returned, in run order
    hi,                         \* resolve_file: number of hunks processed
    mirror,                     \* history: the result of diff3_merge before the sides were exchanged
    handler,                    \* chat_handler: the position of each request
    message_id,                 \* chat_handler: the id each request generated, 0 before
    responses,                  \* chat_handler: what each request's last poll_outgoing returned
    incoming,                   \* QueueDir: the enqueued incoming messages
    outgoing,                   \* QueueDir: the files of the outgoing queue
    acks,                       \* history: the ack_outgoing calls that removed a file
    replies,                    \* history: what each request returned
    pc

\* The variables of the marker parser (main.rs); the diff3 actions leave them alone.
parse_vars == <<text, lines, trace, parsed, region>>

\* The variables of the command line (main.rs).
cli_vars == <<args, check_mode, file_args, read_log, resolver_calls, file_result,
              writes, stdout, stderr, exit_code>>

\* The variables of resolve_stdin (main.rs).
stdin_vars == <<stdin, input, output, all_resolved, resolutions>>

\* The variables of the resolver pipeline.
pipe_vars == <<language, record, outputs, hi>>

\* The variables of the HTTP chat handler (tinyclaw-http) and its queue.
http_vars == <<handler, message_id, responses, incoming, outgoing, acks, replies>>

aux_vars == <<parse_vars, cli_vars, stdin_vars, pipe_vars, mirror, http_vars>>

vars == <<base, left, right, base_lines, left_edits, right_edits, bi, lei, rei,
          hunks, last, iters, panicked, coalesced, result, conflicts, aux_vars, pc>>

\* Bounds of the checked input space.
MaxBaseLines == 3
MaxSideLines == 2

NL == "\n"
CR == "\r"
Letters == {"a", "b"}

Max(x, y) == IF x >= y THEN x ELSE y

----------------------------------------------------------------------------
(* Texts and lines *)

RECURSIVE Join(_, _)
\* [String]::join(sep)
Join(ls, sep) ==
    IF ls = <<>> THEN <<>>
    ELSE IF Len(ls) = 1 THEN ls[1]
    ELSE ls[1] \o sep \o Join(Tail(ls), sep)

RECURSIVE Flatten(_)
Flatten(ss) == IF ss = <<>> THEN <<>> ELSE ss[1] \o Flatten(Tail(ss))

\* Position of the first NL of t at or after i, or Len(t) + 1.
RECURSIVE NextNL(_, _)
NextNL(t, i) == IF i > Len(t) \/ t[i] = NL THEN i ELSE NextNL(t, i + 1)

\* str::split_inclusive('\n'): pieces that keep their terminator.
RECURSIVE SplitInclusive(_)
SplitInclusive(t) ==
    IF t = <<>> THEN <<>>
    ELSE LET k == NextNL(t, 1)
         IN  IF k > Len(t) THEN <<t>>
             ELSE <<SubSeq(t, 1, k)>> \o SplitInclusive(SubSeq(t, k + 1, Len(t)))

\* One line of str::lines(): a final "\n" is removed, and a "\r" before it.
StripLineEnding(p) ==
    IF p # <<>> /\ p[Len(p)] = NL
    THEN LET q == SubSeq(p, 1, Len(p) - 1)
         IN  IF q # <<>> /\ q[Len(q)] = CR THEN SubSeq(q, 1, Len(q) - 1) ELSE q
    ELSE p

\* str::lines()
Lines(t) == LET ps == SplitInclusive(t) IN [i \in 1..Len(ps) |-> StripLineEnding(ps[i])]

\* Position of the end of the first token of t as the diff tokenizes it: a token
\* ends with "\r\n", with a lone "\r" or with "\n".
RECURSIVE TokenEnd(_, _)
TokenEnd(t, i) ==
    IF i > Len(t) THEN Len(t)
    ELSE IF t[i] = NL THEN i
    ELSE IF t[i] = CR THEN (IF i < Len(t) /\ t[i + 1] = NL THEN i + 1 ELSE i)
    ELSE TokenEnd(t, i + 1)

\* The tokens TextDiff::from_lines compares: lines with their terminators.
RECURSIVE TokenizeLines(_)
TokenizeLines(t) ==
    IF t = <<>> THEN <<>>
    ELSE LET k == TokenEnd(t, 1)
         IN  <<SubSeq(t, 1, k)>> \o TokenizeLines(SubSeq(t, k + 1, Len(t)))

\* str::trim_end_matches('\n')
RECURSIVE TrimEndNL(_)
TrimEndNL(s) ==
    IF s # <<>> /\ s[Len(s)] = NL THEN TrimEndNL(SubSeq(s, 1, Len(s) - 1)) ELSE s

----------------------------------------------------------------------------
(* The line diff: TextDiff::from_lines(base, target).iter_all_changes() *)

Change(tag, value) == [tag |-> tag, value |-> value]

RECURSIVE LcsLen(_, _, _, _)
LcsLen(old, new, i, j) ==
    IF i > Len(old) \/ j > Len(new) THEN 0
    ELSE IF old[i] = new[j] THEN 1 + LcsLen(old, new, i + 1, j + 1)
    ELSE Max(LcsLen(old, new, i + 1, j), LcsLen(old, new, i, j + 1))

\* Every longest common subsequence of old[i..] and new[j..], as the list of
\* matched index pairs.
RECURSIVE LcsMatchings(_, _, _, _)
LcsMatchings(old, new, i, j) ==
    LET n == LcsLen(old, new, i, j)
    IN  IF n = 0 THEN {<<>>}
        ELSE (IF old[i] = new[j] /\ 1 + LcsLen(old, new, i + 1, j + 1) = n
              THEN {<<<<i, j>>>> \o m : m \in LcsMatchings(old, new, i + 1, j + 1)}
              ELSE {})
             \cup (IF LcsLen(old, new, i + 1, j) = n
                   THEN LcsMatchings(old, new, i + 1, j) ELSE {})
             \cup (IF LcsLen(old, new, i, j + 1) = n
                   THEN LcsMatchings(old, new, i, j + 1) ELSE {})

\* The change list of one matching: in every gap the Deletes, then the Inserts,
\* then the Equal of the matched pair.
RECURSIVE ChangesOf(_, _, _, _, _)
ChangesOf(old, new, m, i, j) ==
    LET p == IF m = <<>> THEN Len(old) + 1 ELSE m[1][1]
        q == IF m = <<>> THEN Len(new) + 1 ELSE m[1][2]
        dels == [k \in 1..(p - i) |-> Change("Delete", old[i + k - 1])]
        inss == [k \in 1..(q - j) |-> Change("Insert", new[j + k - 1])]
    IN  IF m = <<>> THEN dels \o inss
        ELSE dels \o inss \o <<Change("Equal", old[p])>>
             \o ChangesOf(old, new, Tail(m), p + 1, q + 1)

\* The change lists iter_all_changes() may yield for (base, target).
AllChanges(b, t) ==
    LET old == TokenizeLines(b)
        new == TokenizeLines(t)
    IN  {ChangesOf(old, new, m, 1, 1) : m \in LcsMatchings(old, new, 1, 1)}

----------------------------------------------------------------------------
(* Edit representation and compute_edits *)

Keep == [kind |-> "Keep", lines |-> <<>>]
Delete == [kind |-> "Delete", lines |-> <<>>]
Replace(ls) == [kind |-> "Replace", lines |-> ls]

Insert(before_base_idx, ls) == [op |-> "Insert", idx |-> before_base_idx, lines |-> ls]
Kept(base_idx) == [op |-> "Kept", idx |-> base_idx, lines |-> <<>>]
Deleted(base_idx) == [op |-> "Deleted", idx |-> base_idx, lines |-> <<>>]
Replaced(base_idx, ls) == [op |-> "Replaced", idx |-> base_idx, lines |-> ls]

\* Variant of flush_pending: a delete run with pending inserts becomes plain
\* deletions, the inserted lines are lost.
flush_pending_drop_replacement(st, next_base_idx) ==
    LET pd == st.pending_deletes
        pins == st.pending_inserts
    IN  IF pd # <<>>
        THEN [st EXCEPT !.ops = @ \o [k \in 1..Len(pd) |-> Deleted(pd[k])],
                        !.pending_deletes = <<>>,
                        !.pending_inserts = <<>>]
        ELSE IF pins # <<>>
        THEN [st EXCEPT !.ops = @ \o <<Insert(next_base_idx, pins)>>,
                        !.pending_inserts = <<>>]
        ELSE st

\* flush_pending on the state st = [ops, base_idx, pending_deletes, pending_inserts]
flush_pending(st, next_base_idx) ==
    LET pd == st.pending_deletes
        pins == st.pending_inserts
    IN  IF pd # <<>> /\ pins # <<>>
        THEN [st EXCEPT !.ops = @ \o <<Replaced(pd[1], pins)>>
                                  \o [k \in 1..(Len(pd) - 1) |-> Deleted(pd[k + 1])],
                        !.pending_deletes = <<>>,
                        !.pending_inserts = <<>>]
        ELSE IF pd # <<>>
        THEN [st EXCEPT !.ops = @ \o [k \in 1..Len(pd) |-> Deleted(pd[k])],
                        !.pending_deletes = <<>>]
        ELSE IF pins # <<>>
        THEN [st EXCEPT !.ops = @ \o <<Insert(next_base_idx, pins)>>,
                        !.pending_inserts = <<>>]
        ELSE st

\* One iteration of the loop over diff.iter_all_changes().
EditStep(st, change) ==
    IF change.tag = "Equal"
    THEN LET f == flush_pending(st, st.base_idx)
         IN  [f EXCEPT !.ops = @ \o <<Kept(st.base_idx)>>, !.base_idx = @ + 1]
    ELSE IF change.tag = "Delete"
    THEN LET f == IF st.pending_inserts # <<>> /\ st.pending_deletes = <<>>
                  THEN [st EXCEPT !.ops = @ \o <<Insert(st.base_idx, st.pending_inserts)>>,
                                  !.pending_inserts = <<>>]
                  ELSE st
         IN  [f EXCEPT !.pending_deletes = @ \o <<st.base_idx>>, !.base_idx = @ + 1]
    ELSE [st EXCEPT !.pending_inserts = @ \o <<TrimEndNL(change.value)>>]

RECURSIVE EditLoop(_, _)
EditLoop(st, changes) ==
    IF changes = <<>> THEN st ELSE EditLoop(EditStep(st, changes[1]), Tail(changes))

\* compute_edits(base, target), given the change list of the diff.
compute_edits(b, changes) ==
    LET st0 == [ops |-> <<>>, base_idx |-> 0,
                pending_deletes |-> <<>>, pending_inserts |-> <<>>]
        base_line_count == Len(Lines(b))
    IN  flush_pending(EditLoop(st0, changes), base_line_count).ops

----------------------------------------------------------------------------
(* Hunks *)

Stable(ls) ==
    [tag |-> "Stable", lines |-> ls, base |-> <<>>, left |-> <<>>, right |-> <<>>]
LeftChanged(ls) ==
    [tag |-> "LeftChanged", lines |-> ls, base |-> <<>>, left |-> <<>>, right |-> <<>>]
RightChanged(ls) ==
    [tag |-> "RightChanged", lines |-> ls, base |-> <<>>, left |-> <<>>, right |-> <<>>]
Conflict(b, l, r) ==
    [tag |-> "Conflict", lines |-> <<>>, base |-> b, left |-> l, right |-> r]

\* get_insert_at: the lines inserted before base_idx and the advanced edit index.
RECURSIVE get_insert_at(_, _, _)
get_insert_at(edits, edit_idx, base_idx) ==
    IF edit_idx < Len(edits)
       /\ edits[edit_idx + 1].op = "Insert"
       /\ edits[edit_idx + 1].idx = base_idx
    THEN LET rest == get_insert_at(edits, edit_idx + 1, base_idx)
         IN  [inserted |-> edits[edit_idx + 1].lines \o rest.inserted,
              edit_idx |-> rest.edit_idx]
    ELSE [inserted |-> <<>>, edit_idx |-> edit_idx]

\* Variant of get_action_at: a Deleted op is not recognised.
get_action_at_ignore_deleted(edits, edit_idx, base_idx) ==
    IF edit_idx >= Len(edits) THEN [action |-> Keep, edit_idx |-> edit_idx]
    ELSE LET e == edits[edit_idx + 1]
         IN  IF e.op = "Kept" /\ e.idx = base_idx
             THEN [action |-> Keep, edit_idx |-> edit_idx + 1]
             ELSE IF e.op = "Replaced" /\ e.idx = base_idx
             THEN [action |-> Replace(e.lines), edit_idx |-> edit_idx + 1]
             ELSE [action |-> Keep, edit_idx |-> edit_idx]

\* get_action_at: what the side did with base line base_idx.
get_action_at(edits, edit_idx, base_idx) ==
    IF edit_idx >= Len(edits) THEN [action |-> Keep, edit_idx |-> edit_idx]
    ELSE LET e == edits[edit_idx + 1]
         IN  IF e.op = "Kept" /\ e.idx = base_idx
             THEN [action |-> Keep, edit_idx |-> edit_idx + 1]
             ELSE IF e.op = "Deleted" /\ e.idx = base_idx
             THEN [action |-> Delete, edit_idx |-> edit_idx + 1]
             ELSE IF e.op = "Replaced" /\ e.idx = base_idx
             THEN [action |-> Replace(e.lines), edit_idx |-> edit_idx + 1]
             ELSE [action |-> Keep, edit_idx |-> edit_idx]

\* Variant of InsertHunks: identical insertions of both sides are pushed once
\* per side.
InsertHunksBoth(left_insert, right_insert) ==
    IF left_insert # <<>> /\ right_insert # <<>>
    THEN IF left_insert = right_insert
         THEN <<LeftChanged(left_insert), RightChanged(right_insert)>>
         ELSE <<Conflict(<<>>, left_insert, right_insert)>>
    ELSE IF left_insert # <<>> THEN <<LeftChanged(left_insert)>>
    ELSE IF right_insert # <<>> THEN <<RightChanged(right_insert)>>
    ELSE <<>>

\* The hunks pushed for the insertions before the current base line.
InsertHunks(left_insert, right_insert) ==
    IF left_insert # <<>> /\ right_insert # <<>>
    THEN IF left_insert = right_insert
         THEN <<LeftChanged(left_insert)>>
         ELSE <<Conflict(<<>>, left_insert, right_insert)>>
    ELSE IF left_insert # <<>> THEN <<LeftChanged(left_insert)>>
    ELSE IF right_insert # <<>> THEN <<RightChanged(right_insert)>>
    ELSE <<>>

\* The match without the arms named in skip: "convergence" (the guard
\* left_new == right_new), "right_replace" (the lines of a right-only
\* replacement), "right_delete" (a right-only deletion is taken for a kept line).
ActionHunksWithout(skip, left_action, right_action, base_line) ==
    LET lk == left_action.kind
        rk == right_action.kind
    IN  IF lk = "Keep" /\ rk = "Keep" THEN <<Stable(<<base_line>>)>>
        ELSE IF lk = "Replace" /\ rk = "Keep" THEN <<LeftChanged(left_action.lines)>>
        ELSE IF lk = "Delete" /\ rk = "Keep" THEN <<LeftChanged(<<>>)>>
        ELSE IF lk = "Keep" /\ rk = "Replace"
        THEN IF skip = "right_replace" THEN <<RightChanged(<<>>)>>
             ELSE <<RightChanged(right_action.lines)>>
        ELSE IF lk = "Keep" /\ rk = "Delete"
        THEN IF skip = "right_delete" THEN <<Stable(<<base_line>>)>>
             ELSE <<RightChanged(<<>>)>>
        ELSE IF lk = "Delete" /\ rk = "Delete" THEN <<>>
        ELSE IF lk = "Replace" /\ rk = "Replace"
        THEN IF left_action.lines = right_action.lines /\ skip # "convergence"
             THEN <<LeftChanged(left_action.lines)>>
             ELSE <<Conflict(<<base_line>>, left_action.lines, right_action.lines)>>
        ELSE IF lk = "Replace" /\ rk = "Delete"
        THEN <<Conflict(<<base_line>>, left_action.lines, <<>>)>>
        ELSE <<Conflict(<<base_line>>, <<>>, right_action.lines)>>

ActionHunksNoConvergence(left_action, right_action, base_line) ==
    ActionHunksWithout("convergence", left_action, right_action, base_line)

ActionHunksDropRight(left_action, right_action, base_line) ==
    ActionHunksWithout("right_replace", left_action, right_action, base_line)

ActionHunksKeepDeleted(left_action, right_action, base_line) ==
    ActionHunksWithout("right_delete", left_action, right_action, base_line)

\* Variant of ActionHunks: the arm (Delete, Replace) puts the new lines on the
\* left of the Conflict, as the arm (Replace, Delete) does.
ActionHunksDeleteAsLeft(left_action, right_action, base_line) ==
    IF left_action.kind = "Delete" /\ right_action.kind = "Replace"
    THEN <<Conflict(<<base_line>>, right_action.lines, <<>>)>>
    ELSE ActionHunksWithout("nothing", left_action, right_action, base_line)

\* The hunks pushed for one base line: match (&left_action, &right_action).
ActionHunks(left_action, right_action, base_line) ==
    LET lk == left_action.kind
        rk == right_action.kind
    IN  IF lk = "Keep" /\ rk = "Keep" THEN <<Stable(<<base_line>>)>>
        ELSE IF lk = "Replace" /\ rk = "Keep" THEN <<LeftChanged(left_action.lines)>>
        ELSE IF lk = "Delete" /\ rk = "Keep" THEN <<LeftChanged(<<>>)>>
        ELSE IF lk = "Keep" /\ rk = "Replace" THEN <<RightChanged(right_action.lines)>>
        ELSE IF lk = "Keep" /\ rk = "Delete" THEN <<RightChanged(<<>>)>>
        ELSE IF lk = "Delete" /\ rk = "Delete" THEN <<>>
        ELSE IF lk = "Replace" /\ rk = "Replace"
        THEN IF left_action.lines = right_action.lines
             THEN <<LeftChanged(left_action.lines)>>
             ELSE <<Conflict(<<base_line>>, left_action.lines, right_action.lines)>>
        ELSE IF lk = "Replace" /\ rk = "Delete"
        THEN <<Conflict(<<base_line>>, left_action.lines, <<>>)>>
        ELSE <<Conflict(<<base_line>>, <<>>, right_action.lines)>>

\* Variant of Extend: only the lines of a one-sided or stable hunk are
\* concatenated, the sides of a Conflict are not.
ExtendLinesOnly(existing, new) == [existing EXCEPT !.lines = @ \o new.lines]

\* Merging a hunk into the last hunk of the same variant.
Extend(existing, new) ==
    [existing EXCEPT !.lines = @ \o new.lines, !.base = @ \o new.base,
                     !.left = @ \o new.left, !.right = @ \o new.right]

should_merge(hunk, result_so_far) ==
    result_so_far # <<>> /\ result_so_far[Len(result_so_far)].tag = hunk.tag

RECURSIVE CoalesceLoop(_, _)
CoalesceLoop(res, hs) ==
    IF hs = <<>> THEN res
    ELSE IF should_merge(hs[1], res)
    THEN CoalesceLoop([res EXCEPT ![Len(res)] = Extend(@, hs[1])], Tail(hs))
    ELSE CoalesceLoop(Append(res, hs[1]), Tail(hs))

coalesce_hunks(hs) == CoalesceLoop(<<>>, hs)

----------------------------------------------------------------------------
(* diff3_merge and extract_conflicts over the hunks of diff3_hunks *)

Resolved(content) ==
    [tag |-> "Resolved", content |-> content, base |-> <<>>, left |-> <<>>, right |-> <<>>]
MergeConflict(b, l, r) ==
    [tag |-> "Conflict", content |-> <<>>, base |-> b, left |-> l, right |-> r]
NoResult ==
    [tag |-> "None", content |-> <<>>, base |-> <<>>, left |-> <<>>, right |-> <<>>]

\* Variant of PushLines: the lines are appended without their newline.
PushLinesNoNewline(ls) == Flatten(ls)

\* merged.push_str(line); merged.push('\n') for every line
PushLines(ls) == Flatten([i \in 1..Len(ls) |-> ls[i] \o <<NL>>])

\* Variant of MergeStep: has_conflict is not set.
MergeStepNoFlag(st, hunk) ==
    IF hunk.tag = "Conflict"
    THEN [st EXCEPT !.all_conflict_base = @ \o hunk.base,
                    !.all_conflict_left = @ \o hunk.left,
                    !.all_conflict_right = @ \o hunk.right]
    ELSE [st EXCEPT !.merged = @ \o Flatten([i \in 1..Len(hunk.lines) |-> hunk.lines[i] \o <<NL>>])]

\* One iteration of the loop over the hunks.
MergeStep(st, hunk) ==
    IF hunk.tag = "Conflict"
    THEN [st EXCEPT !.has_conflict = TRUE,
                    !.all_conflict_base = @ \o hunk.base,
                    !.all_conflict_left = @ \o hunk.left,
                    !.all_conflict_right = @ \o hunk.right]
    ELSE [st EXCEPT !.merged = @ \o PushLines(hunk.lines)]

RECURSIVE MergeLoop(_, _)
MergeLoop(st, hs) ==
    IF hs = <<>> THEN st ELSE MergeLoop(MergeStep(st, hs[1]), Tail(hs))

diff3_merge(hs) ==
    LET st == MergeLoop([merged |-> <<>>, has_conflict |-> FALSE,
                         all_conflict_base |-> <<>>, all_conflict_left |-> <<>>,
                         all_conflict_right |-> <<>>], hs)
    IN  IF st.has_conflict
        THEN MergeConflict(Join(st.all_conflict_base, <<NL>>),
                           Join(st.all_conflict_left, <<NL>>),
                           Join(st.all_conflict_right, <<NL>>))
        ELSE Resolved(st.merged)

MergeScenario(b, l, r) == [base |-> b, left |-> l, right |-> r]

RECURSIVE extract_conflicts(_)
extract_conflicts(hs) ==
    IF hs = <<>> THEN <<>>
    ELSE (IF hs[1].tag = "Conflict"
          THEN <<MergeScenario(Join(hs[1].base, <<NL>>), Join(hs[1].left, <<NL>>),
                               Join(hs[1].right, <<NL>>))>>
          ELSE <<>>) \o extract_conflicts(Tail(hs))

----------------------------------------------------------------------------
(* The input space *)

SeqsUpTo(S, n) == UNION {[1..k -> S] : k \in 0..n}

LineSet == {<<c>> : c \in Letters}

\* Texts of at most n lines, with and without a final newline.
Texts(n) == {Join(ls, <<NL>>) \o term : ls \in SeqsUpTo(LineSet, n), term \in {<<>>, <<NL>>}}

----------------------------------------------------------------------------
(* The state machine *)

Iteration(i, li, ri, pushed_ins, broke, la, ra, pushed_act) ==
    [bi |-> i, left_insert |-> li, right_insert |-> ri, pushed_ins |-> pushed_ins,
     broke |-> broke, left_action |-> la, right_action |-> ra, pushed_act |-> pushed_act]

\* The marker parser has not been called.
NoRegion == [base |-> <<>>, left |-> <<>>, right |-> <<>>]

ParseIdle == text = <<>> /\ lines = <<>> /\ trace = <<>> /\ parsed = <<>> /\ region = NoRegion

\* What resolve_file returns: the conflict records with their resolution
\* present or absent, all_resolved and the merged content.
FileResolution(cs, content) ==
    [conflicts |-> cs,
     all_resolved |-> \A k \in DOMAIN cs : cs[k].resolution # "None",
     merged_content |-> content]

NoFileResult == FileResolution(<<>>, <<>>)

\* The command line has not started: no arguments read, nothing printed.
CliIdle ==
    /\ args = <<>>
    /\ check_mode = FALSE
    /\ file_args = <<>>
    /\ read_log = <<>>
    /\ resolver_calls = 0
    /\ file_result = NoFileResult
    /\ writes = <<>>
    /\ stdout = <<>>
    /\ stderr = <<>>
    /\ exit_code = -1

\* An empty standard input that nothing has read.
NoStdin == [ok |-> TRUE, bytes |-> <<>>]

\* resolve_stdin has not been called.
StdinIdle ==
    /\ stdin = NoStdin
    /\ input = <<>>
    /\ output = <<>>
    /\ all_resolved = TRUE
    /\ resolutions = <<>>

\* The record of a conflict before any strategy has run.
ConflictRecordOf(b, l, r) ==
    [base |-> b, left |-> l, right |-> r,
     resolution |-> [some |-> FALSE, content |-> <<>>, strategy |-> "None"],
     candidates |-> <<>>, strategies_tried |-> <<>>]

\* The resolver has not been called.
PipeIdle ==
    /\ language = "None"
    /\ record = ConflictRecordOf(<<>>, <<>>, <<>>)
    /\ outputs = <<>>
    /\ hi = 0

\* The HTTP server has received no request and its queue is empty.
HttpIdle ==
    /\ handler = <<>>
    /\ message_id = <<>>
    /\ responses = <<>>
    /\ incoming = {}
    /\ outgoing = {}
    /\ acks = <<>>
    /\ replies = <<>>

AuxIdle == ParseIdle /\ CliIdle /\ StdinIdle /\ PipeIdle /\ mirror = NoResult /\ HttpIdle

NoIteration == Iteration(0, <<>>, <<>>, <<>>, FALSE, Keep, Keep, <<>>)

Init ==
    /\ base \in Texts(MaxBaseLines)
    /\ left \in Texts(MaxSideLines)
    /\ right \in Texts(MaxSideLines)
    /\ base_lines = <<>>
    /\ left_edits = <<>>
    /\ right_edits = <<>>
    /\ bi = 0
    /\ lei = 0
    /\ rei = 0
    /\ hunks = <<>>
    /\ last = NoIteration
    /\ iters = 0
    /\ panicked = FALSE
    /\ coalesced = <<>>
    /\ result = NoResult
    /\ conflicts = <<>>
    /\ pc = "start"
    /\ AuxIdle

\* diff3_hunks up to the loop: split the base and compute both edit lists.
Diff3Start ==
    /\ pc = "start"
    /\ \E lc \in AllChanges(base, left), rc \in AllChanges(base, right) :
          /\ left = right => lc = rc
          /\ left_edits' = compute_edits(base, lc)
          /\ right_edits' = compute_edits(base, rc)
    /\ base_lines' = Lines(base)
    /\ bi' = 0
    /\ lei' = 0
    /\ rei' = 0
    /\ hunks' = <<>>
    /\ pc' = "walk"
    /\ UNCHANGED <<base, left, right, last, iters, panicked, coalesced, result, conflicts>>
    /\ UNCHANGED aux_vars

LoopCond == bi < Len(base_lines) \/ lei < Len(left_edits) \/ rei < Len(right_edits)

\* Variant of WalkBreak: the loop is never left early.
WalkBreakNever(i, n) == FALSE

\* if bi >= base_lines.len() { break; }
WalkBreak(i, n) == i >= n


\* One iteration of the while loop from the indices (i, l, r): the hunks it
\* pushes and the indices it leaves.  outcome is "next" (bi += 1), "break", or
\* "panic" when base_lines[bi] is read out of bounds.
walk_iteration(i, l, r) ==
    LET li == get_insert_at(left_edits, l, i)
        ri == get_insert_at(right_edits, r, i)
        ih == InsertHunks(li.inserted, ri.inserted)
        la == get_action_at(left_edits, li.edit_idx, i)
        ra == get_action_at(right_edits, ri.edit_idx, i)
    IN  IF WalkBreak(i, Len(base_lines))
        THEN [outcome |-> "break", pushed |-> ih, bi |-> i,
              lei |-> li.edit_idx, rei |-> ri.edit_idx,
              last |-> Iteration(i, li.inserted, ri.inserted, ih, TRUE, Keep, Keep, <<>>)]
        ELSE IF i >= Len(base_lines)
        THEN [outcome |-> "panic", pushed |-> <<>>, bi |-> i, lei |-> l, rei |-> r,
              last |-> last]
        ELSE LET ah == ActionHunks(la.action, ra.action, base_lines[i + 1])
             IN  [outcome |-> "next", pushed |-> ih \o ah, bi |-> i + 1,
                  lei |-> la.edit_idx, rei |-> ra.edit_idx,
                  last |-> Iteration(i, li.inserted, ri.inserted, ih, FALSE,
                                     la.action, ra.action, ah)]

\* One iteration of the while loop; the iteration that breaks returns
\* coalesce_hunks(hunks).
WalkStep ==
    /\ pc = "walk"
    /\ LoopCond = TRUE
    /\ \E it \in {walk_iteration(bi, lei, rei)} :
           /\ hunks' = hunks \o it.pushed
           /\ bi' = it.bi
           /\ lei' = it.lei
           /\ rei' = it.rei
           /\ last' = it.last
           /\ panicked' = (it.outcome = "panic")
           /\ coalesced' = IF it.outcome = "break"
                           THEN coalesce_hunks(hunks \o it.pushed) ELSE coalesced
           /\ pc' = IF it.outcome = "break" THEN "hunks"
                    ELSE IF it.outcome = "panic" THEN "panic" ELSE "walk"
    /\ iters' = iters + 1
    /\ UNCHANGED <<base, left, right, base_lines, left_edits, right_edits, result, conflicts>>
    /\ UNCHANGED aux_vars

\* The loop condition fails: diff3_hunks returns coalesce_hunks(hunks).
WalkExit ==
    /\ pc = "walk"
    /\ LoopCond = FALSE
    /\ coalesced' = coalesce_hunks(hunks)
    /\ pc' = "hunks"
    /\ UNCHANGED <<base, left, right, base_lines, left_edits, right_edits, bi, lei, rei,
                   hunks, last, iters, panicked, result, conflicts>>
    /\ UNCHANGED aux_vars

\* diff3_merge on the scenario.
Diff3Merge ==
    /\ pc = "hunks"
    /\ result' = diff3_merge(coalesced)
    /\ pc' = "merged"
    /\ UNCHANGED <<base, left, right, base_lines, left_edits, right_edits, bi, lei, rei,
                   hunks, last, iters, panicked, coalesced, conflicts>>
    /\ UNCHANGED aux_vars

\* extract_conflicts on the scenario.
ExtractConflicts ==
    /\ pc = "merged"
    /\ conflicts' = extract_conflicts(coalesced)
    /\ pc' = "done"
    /\ UNCHANGED <<base, left, right, base_lines, left_edits, right_edits, bi, lei, rei,
                   hunks, last, iters, panicked, coalesced, result>>
    /\ UNCHANGED aux_vars

Next == Diff3Start \/ WalkStep \/ WalkExit \/ Diff3Merge \/ ExtractConflicts

Spec == Init /\ [][Next]_vars

----------------------------------------------------------------------------
(* coalesce_hunks on an arbitrary hunk list *)

MaxHunks == 2

Payloads == {<<>>, <<<<"a">>>>, <<<<"b">>>>}

AnyHunk ==
    {Stable(p) : p \in Payloads} \cup {LeftChanged(p) : p \in Payloads}
    \cup {RightChanged(p) : p \in Payloads}
    \cup {Conflict(b, l, r) : b \in Payloads, l \in Payloads, r \in Payloads}

InitCoalesce ==
    /\ hunks \in SeqsUpTo(AnyHunk, MaxHunks)
    /\ pc = "coalesce"
    /\ base = <<>>
    /\ left = <<>>
    /\ right = <<>>
    /\ base_lines = <<>>
    /\ left_edits = <<>>
    /\ right_edits = <<>>
    /\ bi = 0
    /\ lei = 0
    /\ rei = 0
    /\ last = NoIteration
    /\ iters = 0
    /\ panicked = FALSE
    /\ coalesced = <<>>
    /\ result = NoResult
    /\ conflicts = <<>>
    /\ AuxIdle

CoalesceCall ==
    /\ pc = "coalesce"
    /\ coalesced' = coalesce_hunks(hunks)
    /\ pc' = "coalesced"
    /\ UNCHANGED <<base, left, right, base_lines, left_edits, right_edits, bi, lei, rei,
                   hunks, last, iters, panicked, result, conflicts>>
    /\ UNCHANGED aux_vars

NextCoalesce == Next \/ CoalesceCall

\* The diff3 entry points together with coalesce_hunks called on any hunk list.
SpecCoalesce == (Init \/ InitCoalesce) /\ [][NextCoalesce]_vars

----------------------------------------------------------------------------
(* Vocabulary of the properties *)

Range(f) == {f[x] : x \in DOMAIN f}

\* diff3_hunks has just returned: its list, the edit lists and base_lines are
\* final and left unchanged by every later action.
Returned == pc = "hunks"

\* The text with every line terminated: t, or t and a newline when t is not
\* empty and does not end with one.
Terminated(t) == IF t = <<>> \/ t[Len(t)] = NL THEN t ELSE t \o <<NL>>

IsConflict(h) == h.tag = "Conflict"

HasConflict(hs) == \E k \in DOMAIN hs : IsConflict(hs[k])

\* The field f of the hunks of hs, concatenated in order.
Concat(hs, f) == Flatten([k \in 1..Len(hs) |-> hs[k][f]])

\* What a side's edit list says about base line i, looked up by index.
SideAction(edits, i) ==
    IF \E k \in DOMAIN edits : edits[k].op # "Insert" /\ edits[k].idx = i
    THEN LET e == edits[CHOOSE k \in DOMAIN edits : edits[k].op # "Insert" /\ edits[k].idx = i]
         IN  IF e.op = "Kept" THEN Keep
             ELSE IF e.op = "Deleted" THEN Delete ELSE Replace(e.lines)
    ELSE Keep

\* The lines a side's edit list inserts before base position p.
InsertedBefore(edits, p) ==
    LET IsAt(e) == e.op = "Insert" /\ e.idx = p
    IN  Concat(SelectSeq(edits, IsAt), "lines")

\* The lines a side's edit list adds: inserted or replacing.
AddedLines(edits) == UNION {Range(edits[k].lines) : k \in DOMAIN edits}

BasePositions == 0..Len(base_lines)
BaseIndices == 0..(Len(base_lines) - 1)

----------------------------------------------------------------------------
(* C1 - C3: one-sided change, idempotence, convergence *)

\* C1 as stated: diff3_merge(b, b, r) is Resolved(r) and diff3_merge(b, l, b) is
\* Resolved(l), byte for byte.
C1_OneSidedByteExact ==
    pc = "done" =>
        /\ left = base => result = Resolved(right)
        /\ right = base => result = Resolved(left)

\* C1 amended: a change made by only one side is always resolved to that side's
\* lines, each terminated by a newline; the content is the side's text when
\* that text is empty or ends with a newline, and the text plus one newline
\* otherwise.
C1_OneSidedResolved ==
    pc = "done" =>
        /\ left = base => result = Resolved(Terminated(right))
        /\ right = base => result = Resolved(Terminated(left))

C1_Witness ==
    /\ pc = "done"
    /\ left = base
    /\ right # base
    /\ Len(base_lines) >= 2
    /\ \E i \in BaseIndices : SideAction(right_edits, i).kind = "Replace"
    /\ result = Resolved(right)

\* C2 as stated: diff3_merge(x, x, x) is Resolved(x), byte for byte.
C2_IdempotentByteExact ==
    (pc = "done" /\ base = left /\ base = right) => result = Resolved(base)

\* C2 amended: merging three identical versions x returns Resolved with the
\* lines of x, each terminated by a newline: x itself when x is empty or ends
\* with a newline, x plus one newline otherwise.
C2_Idempotent ==
    (pc = "done" /\ base = left /\ base = right) => result = Resolved(Terminated(base))

C2_Witness ==
    /\ pc = "done"
    /\ base = left
    /\ base = right
    /\ Len(base_lines) >= 2
    /\ result = Resolved(base)

\* C3 as stated: when left = right, diff3_hunks holds no Conflict hunk and
\* diff3_merge returns Resolved(left), byte for byte.
C3_ConvergenceByteExact ==
    left = right =>
        /\ Returned => ~HasConflict(coalesced)
        /\ pc = "done" => result = Resolved(left)

\* C3 amended: when left = right, diff3_hunks holds no Conflict hunk and
\* diff3_merge returns Resolved with the lines of left, each terminated by a
\* newline (left itself when it is empty or ends with a newline).
C3_Convergence ==
    left = right =>
        /\ Returned => ~HasConflict(coalesced)
        /\ pc = "done" => result = Resolved(Terminated(left))

C3_Witness ==
    /\ pc = "done"
    /\ left = right
    /\ left # base
    /\ \E i \in BaseIndices : SideAction(left_edits, i).kind = "Replace"
    /\ \E i \in BaseIndices : SideAction(left_edits, i).kind = "Delete"
    /\ result = Resolved(left)

----------------------------------------------------------------------------
(* C4 - C6: classification of the edits of both sides *)

C4_Disjoint ==
    /\ \A i \in BaseIndices :
          \/ SideAction(left_edits, i).kind = "Keep"
          \/ SideAction(right_edits, i).kind = "Keep"
    /\ \A p \in BasePositions :
          \/ InsertedBefore(left_edits, p) = <<>>
          \/ InsertedBefore(right_edits, p) = <<>>
          \/ InsertedBefore(left_edits, p) = InsertedBefore(right_edits, p)

C5_Differently(i) ==
    LET la == SideAction(left_edits, i)
        ra == SideAction(right_edits, i)
    IN  /\ la.kind # "Keep"
        /\ ra.kind # "Keep"
        /\ ~(la.kind = "Delete" /\ ra.kind = "Delete")
        /\ ~(la.kind = "Replace" /\ ra.kind = "Replace" /\ la.lines = ra.lines)

C5_Expected(i) ==
    Conflict(<<base_lines[i + 1]>>, SideAction(left_edits, i).lines,
             SideAction(right_edits, i).lines)

C6_BothInsert(p) ==
    InsertedBefore(left_edits, p) # <<>> /\ InsertedBefore(right_edits, p) # <<>>

C6_Expected(p) ==
    IF InsertedBefore(left_edits, p) = InsertedBefore(right_edits, p)
    THEN LeftChanged(InsertedBefore(left_edits, p))
    ELSE Conflict(<<>>, InsertedBefore(left_edits, p), InsertedBefore(right_edits, p))

----------------------------------------------------------------------------
(* C7 - C8: shape of the returned hunk list *)

\* Length of the longest prefix of hs whose hunks carry the tag of hs[1].
RunLen(hs) ==
    CHOOSE n \in 1..Len(hs) :
        /\ \A k \in 1..n : hs[k].tag = hs[1].tag
        /\ n = Len(hs) \/ hs[n + 1].tag # hs[1].tag

\* hs cut into its maximal runs of equally tagged hunks.
RECURSIVE Runs(_)
Runs(hs) ==
    IF hs = <<>> THEN <<>>
    ELSE <<SubSeq(hs, 1, RunLen(hs))>> \o Runs(SubSeq(hs, RunLen(hs) + 1, Len(hs)))

\* One hunk for a run: its tag, and each payload field concatenated on its own.
RunHunk(run) ==
    [tag |-> run[1].tag, lines |-> Concat(run, "lines"), base |-> Concat(run, "base"),
     left |-> Concat(run, "left"), right |-> Concat(run, "right")]

CoalesceReturned == Returned \/ pc = "coalesced"

\* C7: the list returned by diff3_hunks (and by coalesce_hunks on any hunk
\* list) has no two adjacent hunks with the same variant tag; it holds, in
\* order, one hunk per maximal run of equally tagged hunks, whose payload is the
\* concatenation of the run's payloads, the base, left and right sides of
\* Conflict hunks each concatenated on their own.
C7_Coalesced ==
    CoalesceReturned =>
        /\ \A k \in 1..(Len(coalesced) - 1) : coalesced[k].tag # coalesced[k + 1].tag
        /\ Len(coalesced) = Len(Runs(hunks))
        /\ \A k \in DOMAIN coalesced : coalesced[k] = RunHunk(Runs(hunks)[k])

C7_Witness ==
    /\ pc = "coalesced"
    /\ Len(hunks) = 2
    /\ IsConflict(hunks[1])
    /\ IsConflict(hunks[2])
    /\ hunks[1].base # <<>> /\ hunks[1].left # <<>> /\ hunks[1].right # <<>>
    /\ hunks[2].base # <<>> /\ hunks[2].left # <<>> /\ hunks[2].right # <<>>
    /\ hunks[1].base # hunks[2].base
    /\ Len(coalesced) = 1

IsStable(h) == h.tag = "Stable"

IsRunOf(ls, bs) ==
    \E i \in 1..(Len(bs) + 1), j \in 0..Len(bs) : i <= j + 1 /\ ls = SubSeq(bs, i, j)

BothKeep(i) ==
    SideAction(left_edits, i).kind = "Keep" /\ SideAction(right_edits, i).kind = "Keep"

BothDelete(i) ==
    SideAction(left_edits, i).kind = "Delete" /\ SideAction(right_edits, i).kind = "Delete"

\* The indices of the base lines kept by both sides, ascending.
BothKept == SelectSeq([i \in 1..Len(base_lines) |-> i - 1], BothKeep)

RECURSIVE LinesBefore(_, _)
\* Number of lines in the first k hunks of hs.
LinesBefore(hs, k) == IF k = 0 THEN 0 ELSE LinesBefore(hs, k - 1) + Len(hs[k].lines)

----------------------------------------------------------------------------
(* C9 - C10: termination and agreement of the entry points *)

\* C9: the walk never reads base_lines or an edit list out of bounds, every
\* iteration that does not leave the loop advances bi by one, and the loop is
\* left after at most base_lines.len() + 1 iterations, so diff3_hunks returns
\* for every input triple.
C9_WalkTerminates ==
    /\ ~panicked
    /\ pc \in {"start", "walk", "hunks", "merged", "done"}
    /\ bi <= Len(base_lines)
    /\ lei <= Len(left_edits)
    /\ rei <= Len(right_edits)
    /\ pc = "walk" => bi = iters
    /\ iters <= Len(base_lines) + 1
    /\ (pc = "walk" /\ ~LoopCond) =>
           bi = Len(base_lines) /\ lei = Len(left_edits) /\ rei = Len(right_edits)

C9_Witness ==
    /\ pc = "done"
    /\ base = <<>>
    /\ left # <<>>
    /\ right # <<>>
    /\ last.broke
    /\ last.pushed_ins # <<>>

ConflictHunks == SelectSeq(coalesced, IsConflict)

JoinLines(ls) == Join(ls, <<NL>>)

\* C10: diff3_merge returns Resolved exactly when the hunk list holds no
\* Conflict hunk; otherwise it returns Conflict whose base, left and right are
\* the lines of all Conflict hunks in order, joined by newline; and
\* extract_conflicts returns one scenario per Conflict hunk, in hunk order.
C10_EntryPointsAgree ==
    pc = "done" =>
        /\ result.tag = "Resolved" <=> ~HasConflict(coalesced)
        /\ result.tag \in {"Resolved", "Conflict"}
        /\ result.tag = "Conflict" =>
               /\ result.base = JoinLines(Concat(ConflictHunks, "base"))
               /\ result.left = JoinLines(Concat(ConflictHunks, "left"))
               /\ result.right = JoinLines(Concat(ConflictHunks, "right"))
        /\ Len(conflicts) = Len(ConflictHunks)
        /\ \A k \in DOMAIN conflicts :
               conflicts[k] = MergeScenario(JoinLines(ConflictHunks[k].base),
                                            JoinLines(ConflictHunks[k].left),
                                            JoinLines(ConflictHunks[k].right))

C10_Witness ==
    /\ pc = "done"
    /\ result.tag = "Conflict"
    /\ Len(conflicts) = 2
    /\ conflicts[1] # conflicts[2]

----------------------------------------------------------------------------
(* C11: CR/LF line endings *)

MaxCRLFLines == 2

\* Texts of at most n lines, every line ended by "\r\n".
TextsCRLF(n) ==
    {Flatten([k \in 1..Len(ls) |-> ls[k] \o <<CR, NL>>]) : ls \in SeqsUpTo(LineSet, n)}

InitCRLF ==
    /\ base \in TextsCRLF(MaxCRLFLines)
    /\ left \in TextsCRLF(MaxCRLFLines)
    /\ right \in TextsCRLF(MaxCRLFLines)
    /\ base_lines = <<>>
    /\ left_edits = <<>>
    /\ right_edits = <<>>
    /\ bi = 0
    /\ lei = 0
    /\ rei = 0
    /\ hunks = <<>>
    /\ last = NoIteration
    /\ iters = 0
    /\ panicked = FALSE
    /\ coalesced = <<>>
    /\ result = NoResult
    /\ conflicts = <<>>
    /\ pc = "start"
    /\ AuxIdle

\* The diff3 entry points on texts whose lines end in "\r\n".
SpecCRLF == InitCRLF /\ [][Next]_vars

CarriesCR(line) == line # <<>> /\ line[Len(line)] = CR

\* C11: for inputs whose lines end in "\r\n", every line of every hunk
\* returned by diff3_hunks (the lines of a Stable, LeftChanged or RightChanged
\* hunk, the base, left and right lines of a Conflict hunk) still ends with
\* its "\r".
C11_CRPreserved ==
    Returned =>
        \A k \in DOMAIN coalesced :
            \A f \in {"lines", "base", "left", "right"} :
                \A j \in DOMAIN coalesced[k][f] : CarriesCR(coalesced[k][f][j])

\* What the code does instead: the lines taken from an edit list (inserted or
\* replacing lines) carry their "\r", the lines taken from base_lines (Stable
\* lines, the base of a Conflict on a base line) have lost it.
C11_CRLostOnBaseLines ==
    Returned =>
        \A k \in DOMAIN coalesced :
            /\ \A j \in DOMAIN coalesced[k].lines :
                   CarriesCR(coalesced[k].lines[j]) <=> ~IsStable(coalesced[k])
            /\ \A j \in DOMAIN coalesced[k].left : CarriesCR(coalesced[k].left[j])
            /\ \A j \in DOMAIN coalesced[k].right : CarriesCR(coalesced[k].right[j])
            /\ \A j \in DOMAIN coalesced[k].base : ~CarriesCR(coalesced[k].base[j])

C11_Witness ==
    /\ pc = "done"
    /\ Len(base_lines) = 2
    /\ \E k \in DOMAIN coalesced : IsStable(coalesced[k])
    /\ \E k \in DOMAIN coalesced : coalesced[k].tag = "LeftChanged" /\ coalesced[k].lines # <<>>
    /\ result.tag = "Resolved"

----------------------------------------------------------------------------
(* The conflict-marker parser of merge-engine/src/main.rs *)

\* The seven-character marker made of the character c.
Marker(c) == [i \in 1..7 |-> c]

\* str::starts_with
StartsWith(line, prefix) ==
    Len(line) >= Len(prefix) /\ SubSeq(line, 1, Len(prefix)) = prefix

\* The tuple (base, left, right, full_marker) pushed for a closed block.
MarkerRecord(b, l, r, full_marker) ==
    [base |-> b, left |-> l, right |-> r, full_marker |-> full_marker]

\* The locals of parse_conflict_markers before the first line.
ParserStart ==
    [state |-> "None", marker_lines |-> <<>>, left_lines |-> <<>>,
     base_lines |-> <<>>, right_lines |-> <<>>, conflicts |-> <<>>]

\* Variant of ParseLine: a <<<<<<< line inside a block opens a new block.
ParseLineReopen(st, line) ==
    IF StartsWith(line, Marker("<"))
    THEN [st EXCEPT !.state = "Left", !.marker_lines = <<line>>,
                    !.left_lines = <<>>, !.base_lines = <<>>, !.right_lines = <<>>]
    ELSE IF st.state = "None" THEN st
    ELSE LET pushed == [st EXCEPT !.marker_lines = @ \o <<line>>]
         IN  IF st.state = "Left"
             THEN IF StartsWith(line, Marker("|")) THEN [pushed EXCEPT !.state = "Base"]
                  ELSE IF StartsWith(line, Marker("=")) THEN [pushed EXCEPT !.state = "Right"]
                  ELSE [pushed EXCEPT !.left_lines = @ \o <<line>>]
             ELSE IF st.state = "Base"
             THEN IF StartsWith(line, Marker("=")) THEN [pushed EXCEPT !.state = "Right"]
                  ELSE [pushed EXCEPT !.base_lines = @ \o <<line>>]
             ELSE IF StartsWith(line, Marker(">"))
                  THEN [pushed EXCEPT
                           !.conflicts = @ \o <<MarkerRecord(Join(st.base_lines, <<NL>>),
                                                             Join(st.left_lines, <<NL>>),
                                                             Join(st.right_lines, <<NL>>),
                                                             Join(pushed.marker_lines, <<NL>>))>>,
                           !.marker_lines = <<>>,
                           !.state = "None"]
                  ELSE [pushed EXCEPT !.right_lines = @ \o <<line>>]

\* The body of the loop over the lines: match state.
ParseLine(st, line) ==
    IF st.state = "None"
    THEN IF StartsWith(line, Marker("<"))
         THEN [st EXCEPT !.state = "Left", !.marker_lines = @ \o <<line>>,
                         !.left_lines = <<>>, !.base_lines = <<>>, !.right_lines = <<>>]
         ELSE st
    ELSE LET pushed == [st EXCEPT !.marker_lines = @ \o <<line>>]
         IN  IF st.state = "Left"
             THEN IF StartsWith(line, Marker("|")) THEN [pushed EXCEPT !.state = "Base"]
                  ELSE IF StartsWith(line, Marker("=")) THEN [pushed EXCEPT !.state = "Right"]
                  ELSE [pushed EXCEPT !.left_lines = @ \o <<line>>]
             ELSE IF st.state = "Base"
             THEN IF StartsWith(line, Marker("=")) THEN [pushed EXCEPT !.state = "Right"]
                  ELSE [pushed EXCEPT !.base_lines = @ \o <<line>>]
             ELSE IF StartsWith(line, Marker(">"))
                  THEN [pushed EXCEPT
                           !.conflicts = @ \o <<MarkerRecord(Join(st.base_lines, <<NL>>),
                                                             Join(st.left_lines, <<NL>>),
                                                             Join(st.right_lines, <<NL>>),
                                                             Join(pushed.marker_lines, <<NL>>))>>,
                           !.marker_lines = <<>>,
                           !.state = "None"]
                  ELSE [pushed EXCEPT !.right_lines = @ \o <<line>>]

\* The loop over text.lines(): the locals after each line.
RECURSIVE ParseLoop(_, _)
ParseLoop(st, ls) ==
    IF ls = <<>> THEN <<>>
    ELSE LET nxt == ParseLine(st, Head(ls)) IN <<nxt>> \o ParseLoop(nxt, Tail(ls))

ParseTrace(t) == ParseLoop(ParserStart, Lines(t))

\* Variant of ParsedOf: a block still open at the end of the input is returned
\* as a record too.
ParsedOfWithOpenBlock(tr) ==
    IF tr = <<>> THEN <<>>
    ELSE LET st == tr[Len(tr)]
         IN  IF st.state = "None" THEN st.conflicts
             ELSE st.conflicts
                  \o <<MarkerRecord(Join(st.base_lines, <<NL>>), Join(st.left_lines, <<NL>>),
                                    Join(st.right_lines, <<NL>>),
                                    Join(st.marker_lines, <<NL>>))>>

\* The value returned: the conflicts collected when the lines are exhausted.
ParsedOf(tr) == IF tr = <<>> THEN <<>> ELSE tr[Len(tr)].conflicts

parse_conflict_markers(t) == ParsedOf(ParseTrace(t))

MaxParseLines == 6

\* The lines of the parsed texts: the four markers and a content line.
ParseLineSet == {Marker("<"), Marker("|"), Marker("="), Marker(">"), <<"a">>}

\* The lines ls, each but the last followed by eol, the last one too when fin.
TextOf(ls, eol, fin) ==
    Flatten([k \in 1..Len(ls) |-> IF k < Len(ls) \/ fin THEN ls[k] \o eol ELSE ls[k]])

\* The line endings of a text: "\n" with or without one after the last line,
\* and "\r\n" after every line.
LineEndings == {<<<<NL>>, TRUE>>, <<<<NL>>, FALSE>>, <<<<CR, NL>>, TRUE>>}

ParseTexts(n) ==
    {TextOf(ls, e[1], e[2]) : ls \in SeqsUpTo(ParseLineSet, n), e \in LineEndings}

\* No diff3 entry point has been called.
Diff3Idle ==
    /\ base = <<>>
    /\ left = <<>>
    /\ right = <<>>
    /\ base_lines = <<>>
    /\ left_edits = <<>>
    /\ right_edits = <<>>
    /\ bi = 0
    /\ lei = 0
    /\ rei = 0
    /\ hunks = <<>>
    /\ last = NoIteration
    /\ iters = 0
    /\ panicked = FALSE
    /\ coalesced = <<>>
    /\ result = NoResult
    /\ conflicts = <<>>

diff3_vars == <<base, left, right, base_lines, left_edits, right_edits, bi, lei, rei,
                hunks, last, iters, panicked, coalesced, result, conflicts>>

InitParse ==
    /\ text \in ParseTexts(MaxParseLines)
    /\ lines = <<>>
    /\ trace = <<>>
    /\ parsed = <<>>
    /\ region = NoRegion
    /\ pc = "parse"
    /\ Diff3Idle
    /\ mirror = NoResult
    /\ HttpIdle
    /\ PipeIdle
    /\ CliIdle
    /\ StdinIdle

ParseCall ==
    /\ pc = "parse"
    /\ \E ls \in {Lines(text)} :
          /\ lines' = ls
          /\ \E tr \in {ParseLoop(ParserStart, ls)} :
                /\ trace' = tr
                /\ parsed' = ParsedOf(tr)
    /\ pc' = "parsed"
    /\ UNCHANGED <<text, region, diff3_vars, mirror, http_vars, pipe_vars, cli_vars, stdin_vars>>

NextParse == ParseCall

\* parse_conflict_markers called on every text of ParseTexts.
SpecParse == InitParse /\ [][NextParse]_vars

----------------------------------------------------------------------------
(* C12 - C15: the marker parser *)

IsOpen(line) == StartsWith(line, Marker("<"))
IsBaseMark(line) == StartsWith(line, Marker("|"))
IsRightMark(line) == StartsWith(line, Marker("="))
IsClose(line) == StartsWith(line, Marker(">"))
IsLeftEnd(line) == IsBaseMark(line) \/ IsRightMark(line)

\* The first index from `from` on whose line satisfies P; 0 when there is none.
FirstFrom(ls, from, P(_)) ==
    IF \E k \in from..Len(ls) : P(ls[k])
    THEN CHOOSE k \in from..Len(ls) : P(ls[k]) /\ \A j \in from..(k - 1) : ~P(ls[j])
    ELSE 0

\* The terminated blocks of the lines ls from index `from` on, by line index:
\* the <<<<<<< line, the line ending the left section, the ======= line and
\* the >>>>>>> line (left_end = right_at when the block has no ||||||| line).
RECURSIVE Blocks(_, _)
Blocks(ls, from) ==
    LET o == FirstFrom(ls, from, IsOpen)
        d == IF o = 0 THEN 0 ELSE FirstFrom(ls, o + 1, IsLeftEnd)
        m == IF d = 0 THEN 0
             ELSE IF IsBaseMark(ls[d]) THEN FirstFrom(ls, d + 1, IsRightMark) ELSE d
        c == IF m = 0 THEN 0 ELSE FirstFrom(ls, m + 1, IsClose)
    IN  IF c = 0 THEN <<>>
        ELSE <<[open |-> o, left_end |-> d, right_at |-> m, close |-> c]>>
             \o Blocks(ls, c + 1)

TextBlocks == Blocks(lines, 1)

JoinedLines(ls, from, to) == Join(SubSeq(ls, from, to), <<NL>>)

\* The text of the lines from..to as it stands in t, without the terminator
\* of the last of them.
ExactText(t, from, to) ==
    StripLineEnding(Flatten(SubSeq(SplitInclusive(t), from, to)))

BlockLeft(b) == JoinedLines(lines, b.open + 1, b.left_end - 1)
BlockBase(b) == JoinedLines(lines, b.left_end + 1, b.right_at - 1)
BlockRight(b) == JoinedLines(lines, b.right_at + 1, b.close - 1)

\* C12: parse_conflict_markers returns, in input order, one record per
\* terminated block; left, base and right are the content lines of the
\* sections joined by newline, base is empty without a ||||||| section, and
\* full_marker is the exact text of the block from its <<<<<<< line to its
\* >>>>>>> line.
C12_ParsedBlocks ==
    pc = "parsed" =>
        /\ Len(parsed) = Len(TextBlocks)
        /\ \A k \in DOMAIN parsed :
               parsed[k] = MarkerRecord(BlockBase(TextBlocks[k]), BlockLeft(TextBlocks[k]),
                                        BlockRight(TextBlocks[k]),
                                        ExactText(text, TextBlocks[k].open, TextBlocks[k].close))

\* What the code does: the sections are as C12 says, and full_marker is the
\* lines of the block joined by "\n", which is the block's text only when none
\* of its lines but the last ends in "\r\n".
C12_ParsedBlocksJoined ==
    pc = "parsed" =>
        /\ Len(parsed) = Len(TextBlocks)
        /\ \A k \in DOMAIN parsed :
               parsed[k] = MarkerRecord(BlockBase(TextBlocks[k]), BlockLeft(TextBlocks[k]),
                                        BlockRight(TextBlocks[k]),
                                        JoinedLines(lines, TextBlocks[k].open,
                                                    TextBlocks[k].close))

C12_Witness ==
    /\ pc = "parsed"
    /\ Len(parsed) = 2
    /\ parsed[2].full_marker # ExactText(text, TextBlocks[2].open, TextBlocks[2].close)

----------------------------------------------------------------------------
(* C13: emitting a conflict region and parsing it back *)

MaxRegionLines == 2

\* The lines of a region's sides: a plain line, a line that kept the "\r" of
\* its "\r\n" ending, and a line that reads like the ======= marker.
RegionLineSet == {<<"a">>, <<"a", CR>>, Marker("=")}

\* The sides of a region: lines joined by "\n", as extract_conflicts and
\* parse_conflict_markers build them.
RegionSides(n) == {Join(ls, <<NL>>) : ls \in SeqsUpTo(RegionLineSet, n)}

\* One section of an emitted block: the side's lines, each ended by "\n".
EmitSide(side) == IF side = <<>> THEN <<>> ELSE side \o <<NL>>

\* The standard form of a region: seven-character markers, no labels, the base
\* section left out when the base side is empty.
EmitMarkers(r) ==
    Marker("<") \o <<NL>> \o EmitSide(r.left)
    \o (IF r.base = <<>> THEN <<>> ELSE Marker("|") \o <<NL>> \o EmitSide(r.base))
    \o Marker("=") \o <<NL>> \o EmitSide(r.right)
    \o Marker(">") \o <<NL>>

InitRoundTrip ==
    /\ region \in [base : RegionSides(MaxRegionLines), left : RegionSides(MaxRegionLines),
                   right : RegionSides(MaxRegionLines)]
    /\ text = <<>>
    /\ lines = <<>>
    /\ trace = <<>>
    /\ parsed = <<>>
    /\ pc = "emit"
    /\ Diff3Idle
    /\ mirror = NoResult
    /\ HttpIdle
    /\ PipeIdle
    /\ CliIdle
    /\ StdinIdle

\* The region is emitted and the emitted block is parsed.
EmitAndParse ==
    /\ pc = "emit"
    /\ \E t \in {EmitMarkers(region)} :
          /\ text' = t
          /\ \E ls \in {Lines(t)} :
                /\ lines' = ls
                /\ \E tr \in {ParseLoop(ParserStart, ls)} :
                      /\ trace' = tr
                      /\ parsed' = ParsedOf(tr)
    /\ pc' = "reparsed"
    /\ UNCHANGED <<region, diff3_vars, mirror, http_vars, pipe_vars, cli_vars, stdin_vars>>

NextRoundTrip == EmitAndParse

SpecRoundTrip == InitRoundTrip /\ [][NextRoundTrip]_vars

\* C13: parsing the emitted block of a region (b, l, r) yields exactly one
\* record, whose base, left and right equal b, l and r byte for byte.
C13_RoundTrip ==
    pc = "reparsed" =>
        /\ Len(parsed) = 1
        /\ parsed[1].base = region.base
        /\ parsed[1].left = region.left
        /\ parsed[1].right = region.right

\* A side the round trip keeps: no "\r" and no line that starts with a marker.
PlainSide(side) ==
    /\ CR \notin Range(side)
    /\ \A k \in DOMAIN Lines(side) :
           LET line == Lines(side)[k]
           IN  ~(IsOpen(line) \/ IsBaseMark(line) \/ IsRightMark(line) \/ IsClose(line))

\* What the code does: the round trip is exact for regions whose sides hold no
\* "\r" and no line starting with a marker.
C13_RoundTripPlain ==
    (/\ pc = "reparsed"
     /\ PlainSide(region.base)
     /\ PlainSide(region.left)
     /\ PlainSide(region.right)) =>
        parsed = <<MarkerRecord(region.base, region.left, region.right,
                                StripLineEnding(text))>>

C13_Witness ==
    /\ pc = "reparsed"
    /\ region.base # <<>>
    /\ Len(Lines(region.left)) = 2
    /\ CR \in Range(region.left)
    /\ Len(parsed) = 1
    /\ parsed[1].left # region.left

----------------------------------------------------------------------------
(* C14: unterminated blocks *)

\* The parser state before line k of the text.
StateBefore(k) == IF k = 1 THEN "None" ELSE trace[k - 1].state

\* The parser's locals before line k of the text.
ConfigBefore(k) == IF k = 1 THEN ParserStart ELSE trace[k - 1]

\* The input ends inside a block.
Unterminated == trace # <<>> /\ trace[Len(trace)].state # "None"

\* The <<<<<<< line of the block the input ends in.
LastOpen ==
    CHOOSE k \in DOMAIN trace :
        /\ StateBefore(k) = "None"
        /\ \A j \in k..Len(trace) : trace[j].state # "None"

\* C14: a block opened by <<<<<<< and not closed by >>>>>>> before the end of
\* the input gives no record: every record returned is a block closed by a
\* >>>>>>> line, there are as many records as closing lines, and the result
\* is the one of the input cut before the unterminated block.
C14_UnterminatedDiscarded ==
    pc = "parsed" =>
        /\ Len(parsed) =
               Cardinality({k \in DOMAIN trace : StateBefore(k) = "Right" /\ trace[k].state = "None"})
        /\ \A k \in DOMAIN trace :
               trace[k].conflicts # ConfigBefore(k).conflicts =>
                   /\ IsClose(lines[k])
                   /\ StateBefore(k) = "Right"
                   /\ Len(trace[k].conflicts) = Len(ConfigBefore(k).conflicts) + 1
        /\ Unterminated =>
               parsed = ParsedOf(ParseLoop(ParserStart, SubSeq(lines, 1, LastOpen - 1)))

C14_Witness ==
    /\ pc = "parsed"
    /\ Unterminated
    /\ trace[Len(trace)].state = "Right"
    /\ Len(parsed) = 1

----------------------------------------------------------------------------
(* C15: nested markers *)

IsMarkerLine(line) == IsOpen(line) \/ IsBaseMark(line) \/ IsRightMark(line) \/ IsClose(line)

\* The marker the state moves on: ||||||| or ======= in Left, ======= in Base,
\* >>>>>>> in Right.
ExpectedIn(state, line) ==
    \/ state = "Left" /\ (IsBaseMark(line) \/ IsRightMark(line))
    \/ state = "Base" /\ IsRightMark(line)
    \/ state = "Right" /\ IsClose(line)

\* The field holding the content of the section of a state.
SectionOf(state) ==
    IF state = "Left" THEN "left_lines"
    ELSE IF state = "Base" THEN "base_lines" ELSE "right_lines"

\* Line k is a marker line met inside a block that is not the marker its state
\* moves on.
NestedAt(k) ==
    /\ StateBefore(k) # "None"
    /\ IsMarkerLine(lines[k])
    /\ ~ExpectedIn(StateBefore(k), lines[k])

\* C15: inside a block, a line starting with <<<<<<< and any marker line that
\* is not the transition expected in the current state is appended to the
\* content of the current section; it changes neither the state nor the other
\* sections and opens or closes no record.
C15_NestedMarkersAreContent ==
    pc = "parsed" =>
        \A k \in DOMAIN trace :
            NestedAt(k) =>
                LET before == ConfigBefore(k)
                    sec == SectionOf(before.state)
                IN  /\ trace[k].state = before.state
                    /\ trace[k][sec] = before[sec] \o <<lines[k]>>
                    /\ \A f \in {"left_lines", "base_lines", "right_lines"} \ {sec} :
                           trace[k][f] = before[f]
                    /\ trace[k].conflicts = before.conflicts
                    /\ trace[k].marker_lines = before.marker_lines \o <<lines[k]>>

C15_Witness ==
    /\ pc = "parsed"
    /\ Len(parsed) = 1
    /\ \E k \in DOMAIN trace : NestedAt(k) /\ IsOpen(lines[k]) /\ StateBefore(k) = "Left"
    /\ \E k \in DOMAIN trace : NestedAt(k) /\ IsBaseMark(lines[k]) /\ StateBefore(k) = "Right"
    /\ parsed[1].left = Marker("<")
    /\ parsed[1].right = Marker("|")

----------------------------------------------------------------------------
(* The command line of merge-engine/src/main.rs: positional and --check form *)

MaxArgs == 4

MaxConflictRecords == 2

\* The arguments after the program name.
ArgTokens == {"--stdin", "--check", "b", "l", "r"}

ArgVectors(n) == {<<"merge-engine">> \o a : a \in SeqsUpTo(ArgTokens, n)}

\* The messages of eprintln!.
Usage == [msg |-> "usage"]
NeedFiles == [msg |-> "need at least 3 file arguments"]
ReadError(which, path) == [msg |-> "error reading", file |-> which, path |-> path]
WriteError(path) == [msg |-> "error writing", path |-> path]
AllResolvedMsg(n) == [msg |-> "all conflicts resolved", regions |-> n]
UnresolvedMsg(n) == [msg |-> "conflict(s) remain unresolved", count |-> n]

ConflictRecord(resolution) == [resolution |-> resolution]

\* The results resolver.resolve_file may return.
FileResults ==
    {FileResolution(cs, m) :
        cs \in SeqsUpTo({ConflictRecord("Some"), ConflictRecord("None")}, MaxConflictRecords),
        m \in {<<>>, <<"m", NL>>}}

\* result.conflicts.iter().filter(|c| c.resolution.is_none()).count()
UnresolvedCount(r) == Cardinality({k \in DOMAIN r.conflicts : r.conflicts[k].resolution = "None"})

\* println!("{}", x)
Println(x) == x \o <<NL>>

base_path == file_args[1]
left_path == file_args[2]
right_path == file_args[3]

InitCli ==
    /\ args \in ArgVectors(MaxArgs)
    /\ check_mode = FALSE
    /\ file_args = <<>>
    /\ read_log = <<>>
    /\ resolver_calls = 0
    /\ file_result = NoFileResult
    /\ writes = <<>>
    /\ stdout = <<>>
    /\ stderr = <<>>
    /\ exit_code = -1
    /\ pc = "main"
    /\ Diff3Idle
    /\ mirror = NoResult
    /\ HttpIdle
    /\ PipeIdle
    /\ ParseIdle
    /\ StdinIdle

\* return ExitCode::from(code)
Exit(code) == exit_code' = code /\ pc' = "exit"

\* if args.len() < 2: usage, exit 1
MainUsage ==
    /\ pc = "main"
    /\ Len(args) < 2
    /\ stderr' = stderr \o <<Usage>>
    /\ Exit(1)
    /\ UNCHANGED <<args, check_mode, file_args, read_log, resolver_calls, file_result,
                   writes, stdout, diff3_vars, mirror, http_vars, pipe_vars, parse_vars, stdin_vars>>

\* if args[1] == "--stdin": return resolve_stdin()
MainStdin ==
    /\ pc = "main"
    /\ Len(args) >= 2
    /\ args[2] = "--stdin"
    /\ pc' = "stdin"
    /\ UNCHANGED <<cli_vars, diff3_vars, mirror, http_vars, pipe_vars, parse_vars, stdin_vars>>

\* check_mode, file_args, and the test of file_args.len()
MainArgs ==
    /\ pc = "main"
    /\ Len(args) >= 2
    /\ args[2] # "--stdin"
    /\ check_mode' = (args[2] = "--check")
    /\ file_args' = SubSeq(args, IF args[2] = "--check" THEN 3 ELSE 2, Len(args))
    /\ IF Len(file_args') < 3
       THEN stderr' = stderr \o <<NeedFiles>> /\ Exit(1)
       ELSE pc' = "read_base" /\ UNCHANGED <<stderr, exit_code>>
    /\ UNCHANGED <<args, read_log, resolver_calls, file_result, writes, stdout,
                   diff3_vars, mirror, http_vars, pipe_vars, parse_vars, stdin_vars>>

\* Variant of ReadFile: a failed read is reported and the run goes on.
ReadFileIgnoreError(which, path, then) ==
    /\ \E ok \in BOOLEAN :
          /\ read_log' = Append(read_log, [path |-> path, ok |-> ok])
          /\ stderr' = IF ok THEN stderr ELSE stderr \o <<ReadError(which, path)>>
          /\ pc' = then
          /\ UNCHANGED exit_code
    /\ UNCHANGED <<args, check_mode, file_args, resolver_calls, file_result, writes, stdout,
                   diff3_vars, mirror, http_vars, pipe_vars, parse_vars, stdin_vars>>

\* std::fs::read_to_string(path): on Err the message and exit 2, on Ok go on.
ReadFile(which, path, then) ==
    /\ \E ok \in BOOLEAN :
          /\ read_log' = Append(read_log, [path |-> path, ok |-> ok])
          /\ IF ok
             THEN pc' = then /\ UNCHANGED <<stderr, exit_code>>
             ELSE stderr' = stderr \o <<ReadError(which, path)>> /\ Exit(2)
    /\ UNCHANGED <<args, check_mode, file_args, resolver_calls, file_result, writes, stdout,
                   diff3_vars, mirror, http_vars, pipe_vars, parse_vars, stdin_vars>>

ReadBase == pc = "read_base" /\ ReadFile("base", base_path, "read_left")

ReadLeft == pc = "read_left" /\ ReadFile("left", left_path, "read_right")

ReadRight == pc = "read_right" /\ ReadFile("right", right_path, "resolve")

\* Variant of ResolveFile: the result is written to the left file in --check
\* mode too.
ResolveFileAlwaysWrite ==
    /\ pc = "resolve"
    /\ file_result' \in FileResults
    /\ resolver_calls' = resolver_calls + 1
    /\ pc' = "write"
    /\ UNCHANGED <<args, check_mode, file_args, read_log, writes, stdout, stderr, exit_code,
                   diff3_vars, mirror, http_vars, pipe_vars, parse_vars, stdin_vars>>

\* let result = resolver.resolve_file(&base, &left, &right)
ResolveFile ==
    /\ pc = "resolve"
    /\ file_result' \in FileResults
    /\ resolver_calls' = resolver_calls + 1
    /\ pc' = IF check_mode THEN "report" ELSE "write"
    /\ UNCHANGED <<args, check_mode, file_args, read_log, writes, stdout, stderr, exit_code,
                   diff3_vars, mirror, http_vars, pipe_vars, parse_vars, stdin_vars>>

\* if check_mode { ... }
CheckReport ==
    /\ pc = "report"
    /\ stdout' = stdout \o Println(file_result.merged_content)
    /\ IF file_result.all_resolved
       THEN stderr' = stderr \o <<AllResolvedMsg(Len(file_result.conflicts))>> /\ Exit(0)
       ELSE stderr' = stderr \o <<UnresolvedMsg(UnresolvedCount(file_result))>> /\ Exit(1)
    /\ UNCHANGED <<args, check_mode, file_args, read_log, resolver_calls, file_result, writes,
                   diff3_vars, mirror, http_vars, pipe_vars, parse_vars, stdin_vars>>

\* Variant of WriteLeft: a partial merge is not written.
WriteLeftOnlyResolved ==
    /\ pc = "write"
    /\ IF file_result.all_resolved
       THEN \E ok \in BOOLEAN :
               /\ writes' = Append(writes, [path |-> left_path,
                                            content |-> file_result.merged_content, ok |-> ok])
               /\ IF ok
                  THEN Exit(0) /\ UNCHANGED stderr
                  ELSE stderr' = stderr \o <<WriteError(left_path)>> /\ Exit(2)
       ELSE Exit(1) /\ UNCHANGED <<writes, stderr>>
    /\ UNCHANGED <<args, check_mode, file_args, read_log, resolver_calls, file_result, stdout,
                   diff3_vars, mirror, http_vars, pipe_vars, parse_vars, stdin_vars>>

\* else { std::fs::write(left_path, &result.merged_content) ... }
WriteLeft ==
    /\ pc = "write"
    /\ \E ok \in BOOLEAN :
          /\ writes' = Append(writes, [path |-> left_path,
                                       content |-> file_result.merged_content, ok |-> ok])
          /\ IF ok
             THEN Exit(IF file_result.all_resolved THEN 0 ELSE 1) /\ UNCHANGED stderr
             ELSE stderr' = stderr \o <<WriteError(left_path)>> /\ Exit(2)
    /\ UNCHANGED <<args, check_mode, file_args, read_log, resolver_calls, file_result, stdout,
                   diff3_vars, mirror, http_vars, pipe_vars, parse_vars, stdin_vars>>

NextCli ==
    \/ MainUsage
    \/ MainStdin
    \/ MainArgs
    \/ ReadBase
    \/ ReadLeft
    \/ ReadRight
    \/ ResolveFile
    \/ CheckReport
    \/ WriteLeft

\* main on every argument vector, up to the call of resolve_stdin.
SpecCli == InitCli /\ [][NextCli]_vars

----------------------------------------------------------------------------
(* C16 - C18: exit codes and effects of the positional and --check form *)

Exited == pc = "exit"

\* C16: in the positional form, once the three files are read, the merged
\* content is written to the left path whether all conflicts are resolved or
\* not; the exit code is 0 exactly when all conflicts are resolved and the
\* write succeeded, 1 when conflicts remain and the write succeeded, 2 when
\* the write failed.
C16_PositionalWrite ==
    (Exited /\ ~check_mode /\ resolver_calls > 0) =>
        /\ Len(writes) = 1
        /\ writes[1].path = left_path
        /\ writes[1].content = file_result.merged_content
        /\ exit_code = 0 <=> (file_result.all_resolved /\ writes[1].ok)
        /\ exit_code = 1 <=> (~file_result.all_resolved /\ writes[1].ok)
        /\ exit_code = 2 <=> ~writes[1].ok
        /\ stdout = <<>>

C16_Witness ==
    /\ Exited
    /\ ~check_mode
    /\ Len(writes) = 1
    /\ writes[1].ok
    /\ ~file_result.all_resolved
    /\ file_result.merged_content # <<>>
    /\ exit_code = 1

\* C17: the files are read in the order base, left, right; the first read
\* that fails ends the run with exit code 2, before the resolver is called
\* and with nothing written to the left path or to stdout.
C17_ReadFailureIsFatal ==
    /\ Len(read_log) <= 3
    /\ \A k \in DOMAIN read_log :
           /\ read_log[k].path = file_args[k]
           /\ k < Len(read_log) => read_log[k].ok
    /\ (read_log # <<>> /\ ~read_log[Len(read_log)].ok) =>
           /\ Exited
           /\ exit_code = 2
           /\ resolver_calls = 0
           /\ writes = <<>>
           /\ stdout = <<>>
           /\ stderr = <<ReadError(<<"base", "left", "right">>[Len(read_log)],
                                   file_args[Len(read_log)])>>
    /\ resolver_calls > 0 =>
           Len(read_log) = 3 /\ \A k \in DOMAIN read_log : read_log[k].ok

C17_Witness ==
    /\ Exited
    /\ Len(read_log) = 2
    /\ read_log[1].ok
    /\ ~read_log[2].ok
    /\ exit_code = 2

\* C18: in --check mode no file is ever written; the merged content goes to
\* stdout, the exit code is 0 when all conflicts are resolved and 1 otherwise,
\* and the count reported on stderr is the number of conflict records without
\* a resolution.
C18_CheckNeverWrites ==
    check_mode =>
        /\ writes = <<>>
        /\ (Exited /\ resolver_calls > 0) =>
               /\ stdout = Println(file_result.merged_content)
               /\ exit_code = IF file_result.all_resolved THEN 0 ELSE 1
               /\ ~file_result.all_resolved =>
                      stderr = <<UnresolvedMsg(Cardinality(
                                   {k \in DOMAIN file_result.conflicts :
                                       file_result.conflicts[k].resolution = "None"}))>>
               /\ file_result.all_resolved =>
                      stderr = <<AllResolvedMsg(Len(file_result.conflicts))>>

C18_Witness ==
    /\ Exited
    /\ check_mode
    /\ Len(file_result.conflicts) = 2
    /\ stderr = <<UnresolvedMsg(1)>>
    /\ exit_code = 1
    /\ stdout # <<NL>>

----------------------------------------------------------------------------
(* resolve_stdin of merge-engine/src/main.rs: the --stdin form *)

MaxSegments == 3

\* The pieces the texts on stdin are made of, as lines: a content line, a
\* block with no content, with a left line, with a right line, with a base
\* section, with a <<<<<<< line as left content, and a lone <<<<<<< line.
StdinSegments ==
    {<<<<"a">>>>,
     <<Marker("<"), Marker("="), Marker(">")>>,
     <<Marker("<"), <<"a">>, Marker("="), Marker(">")>>,
     <<Marker("<"), Marker("="), <<"a">>, Marker(">")>>,
     <<Marker("<"), Marker("|"), Marker("="), Marker(">")>>,
     <<Marker("<"), Marker("<"), Marker("="), Marker(">")>>,
     <<Marker("<")>>}

StdinTexts(n) ==
    {TextOf(Flatten(segs), e[1], e[2]) : segs \in SeqsUpTo(StdinSegments, n), e \in LineEndings}

\* What io::stdin().read_to_string may meet: a text, or an error.
StdinStreams(n) ==
    {[ok |-> TRUE, bytes |-> t] : t \in StdinTexts(n)} \cup {[ok |-> FALSE, bytes |-> <<>>]}

StdinReadError == [msg |-> "error reading stdin"]
NoMarkersMsg == [msg |-> "no conflict markers found in input"]

\* result.resolution of resolve_conflict: None, or Some with its content.
NoResolution == [some |-> FALSE, content |-> <<>>]
SomeResolution(content) == [some |-> TRUE, content |-> content]

\* The values resolve_conflict may return for a conflict.
ConflictResolutions == {NoResolution, SomeResolution(<<"x">>), SomeResolution(<<>>)}

\* str::find from position i: the first k >= i where pat starts in s, or 0.
FindFrom(s, pat, i) ==
    LET ks == {k \in i..(Len(s) - Len(pat) + 1) : SubSeq(s, k, k + Len(pat) - 1) = pat}
    IN  IF ks = {} THEN 0 ELSE CHOOSE k \in ks : \A j \in ks : k <= j

RECURSIVE CountFrom(_, _, _)
CountFrom(s, pat, i) ==
    LET k == FindFrom(s, pat, i)
    IN  IF k = 0 THEN 0 ELSE 1 + CountFrom(s, pat, k + Len(pat))

\* str::matches(pat).count(): the matches of pat in s, left to right without
\* overlap.
CountMatches(s, pat) == IF pat = <<>> THEN 0 ELSE CountFrom(s, pat, 1)

RECURSIVE ReplaceFrom(_, _, _, _)
ReplaceFrom(s, from, to, i) ==
    LET k == FindFrom(s, from, i)
    IN  IF k = 0 THEN SubSeq(s, i, Len(s))
        ELSE SubSeq(s, i, k - 1) \o to \o ReplaceFrom(s, from, to, k + Len(from))

\* str::replace(from, to): every match of from, left to right without
\* overlap, is replaced by to; an empty pattern matches around every character.
str_replace(s, from, to) ==
    IF from = <<>> THEN to \o Flatten([i \in 1..Len(s) |-> <<s[i]>> \o to])
    ELSE ReplaceFrom(s, from, to, 1)

InitStdin ==
    /\ args = <<"merge-engine", "--stdin">>
    /\ stdin \in StdinStreams(MaxSegments)
    /\ input = <<>>
    /\ output = <<>>
    /\ all_resolved = TRUE
    /\ resolutions = <<>>
    /\ check_mode = FALSE
    /\ file_args = <<>>
    /\ read_log = <<>>
    /\ resolver_calls = 0
    /\ file_result = NoFileResult
    /\ writes = <<>>
    /\ stdout = <<>>
    /\ stderr = <<>>
    /\ exit_code = -1
    /\ pc = "main"
    /\ Diff3Idle
    /\ mirror = NoResult
    /\ HttpIdle
    /\ PipeIdle
    /\ ParseIdle

\* io::stdin().read_to_string(&mut input): on Err the message and exit 2.
StdinRead ==
    /\ pc = "stdin"
    /\ IF stdin.ok
       THEN input' = stdin.bytes /\ pc' = "stdin_parse" /\ UNCHANGED <<stderr, exit_code>>
       ELSE stderr' = stderr \o <<StdinReadError>> /\ Exit(2) /\ UNCHANGED input
    /\ UNCHANGED <<stdin, output, all_resolved, resolutions, args, check_mode, file_args,
                   read_log, resolver_calls, file_result, writes, stdout,
                   diff3_vars, mirror, http_vars, pipe_vars, parse_vars>>

\* let conflicts = parse_conflict_markers(&input); without a conflict the
\* input is printed with println! and the exit code is 0; otherwise the loop
\* starts with output = input.clone() and all_resolved = true.
StdinParse ==
    /\ pc = "stdin_parse"
    /\ text' = input
    /\ \E ls \in {Lines(input)} :
          /\ lines' = ls
          /\ \E tr \in {ParseLoop(ParserStart, ls)} :
                /\ trace' = tr
                /\ parsed' = ParsedOf(tr)
    /\ IF parsed' = <<>>
       THEN /\ stderr' = stderr \o <<NoMarkersMsg>>
            /\ stdout' = stdout \o Println(input)
            /\ Exit(0)
            /\ UNCHANGED <<output, all_resolved>>
       ELSE /\ output' = input
            /\ all_resolved' = TRUE
            /\ pc' = "stdin_loop"
            /\ UNCHANGED <<stderr, stdout, exit_code>>
    /\ UNCHANGED <<stdin, input, resolutions, args, check_mode, file_args, read_log,
                   resolver_calls, file_result, writes, region, diff3_vars, mirror, http_vars, pipe_vars>>

\* The index in conflicts of the call number j: conflicts.iter().rev()
CallIndex(j) == Len(parsed) - j + 1

\* The three sides resolve_conflict is given for the conflict k.
Sides(k) == <<parsed[k].base, parsed[k].left, parsed[k].right>>

\* Variant of StdinResolve: a conflict without resolution leaves all_resolved
\* as it is.
StdinResolveKeepFlag ==
    /\ pc = "stdin_loop"
    /\ Len(resolutions) < Len(parsed)
    /\ \E k \in {CallIndex(Len(resolutions) + 1)} :
       \E r \in ConflictResolutions :
          /\ \A j \in DOMAIN resolutions :
                Sides(CallIndex(j)) = Sides(k) => resolutions[j] = r
          /\ resolutions' = Append(resolutions, r)
          /\ output' = IF r.some THEN str_replace(output, parsed[k].full_marker, r.content)
                       ELSE output
          /\ UNCHANGED all_resolved
    /\ resolver_calls' = resolver_calls + 1
    /\ UNCHANGED <<stdin, input, args, check_mode, file_args, read_log, file_result, writes,
                   stdout, stderr, exit_code, pc, diff3_vars, mirror, http_vars, pipe_vars, parse_vars>>

\* One iteration of the loop over conflicts.iter().rev(): resolve_conflict
\* returns a resolution or none, the same for the same three sides; with a
\* resolution every match of full_marker in output is replaced by its content,
\* without one all_resolved becomes false.
StdinResolve ==
    /\ pc = "stdin_loop"
    /\ Len(resolutions) < Len(parsed)
    /\ \E k \in {CallIndex(Len(resolutions) + 1)} :
       \E r \in ConflictResolutions :
          /\ \A j \in DOMAIN resolutions :
                Sides(CallIndex(j)) = Sides(k) => resolutions[j] = r
          /\ resolutions' = Append(resolutions, r)
          /\ IF r.some
             THEN /\ output' = str_replace(output, parsed[k].full_marker, r.content)
                  /\ UNCHANGED all_resolved
             ELSE /\ all_resolved' = FALSE
                  /\ UNCHANGED output
    /\ resolver_calls' = resolver_calls + 1
    /\ UNCHANGED <<stdin, input, args, check_mode, file_args, read_log, file_result, writes,
                   stdout, stderr, exit_code, pc, diff3_vars, mirror, http_vars, pipe_vars, parse_vars>>

\* print!("{}", output) and the exit code after the loop.
StdinPrint ==
    /\ pc = "stdin_loop"
    /\ Len(resolutions) = Len(parsed)
    /\ stdout' = stdout \o output
    /\ Exit(IF all_resolved THEN 0 ELSE 1)
    /\ UNCHANGED <<stdin, input, output, all_resolved, resolutions, args, check_mode,
                   file_args, read_log, resolver_calls, file_result, writes, stderr,
                   diff3_vars, mirror, http_vars, pipe_vars, parse_vars>>

NextStdin ==
    \/ MainStdin
    \/ StdinRead
    \/ StdinParse
    \/ StdinResolve
    \/ StdinPrint

\* merge-engine --stdin on every stream of StdinStreams.
SpecStdin == InitStdin /\ [][NextStdin]_vars

----------------------------------------------------------------------------
(* C19 - C20: exit codes and output of the --stdin form *)

\* The resolution the block number k of the input received.
ResolutionOf(k) == resolutions[CallIndex(k)]

\* C19: in --stdin mode the exit code is 0 exactly when every parsed block
\* received a resolution, which includes an input without any block, and 1
\* when at least one block received none; when stdin cannot be read the exit
\* code is 2.
C19_StdinExitCode ==
    (Exited /\ args[2] = "--stdin") =>
        /\ stdin.ok =>
              /\ Len(resolutions) = Len(parsed)
              /\ exit_code = 0 <=> \A k \in DOMAIN parsed : ResolutionOf(k).some
              /\ exit_code = 1 <=> \E k \in DOMAIN parsed : ~ResolutionOf(k).some
        /\ ~stdin.ok => exit_code = 2 /\ stdout = <<>> /\ resolutions = <<>>

C19_Witness ==
    /\ Exited
    /\ args[2] = "--stdin"
    /\ Len(parsed) = 2
    /\ ResolutionOf(1).some
    /\ ~ResolutionOf(2).some
    /\ exit_code = 1

\* The line terminator of the piece p of split_inclusive: "\n", "\r\n" or none.
LineTerminator(p) == SubSeq(p, Len(StripLineEnding(p)) + 1, Len(p))

\* The pieces ps from index i on, where every block of bs that received a
\* resolution stands replaced, from its <<<<<<< line to its >>>>>>> line, by
\* the resolution content, and everything else stands as it is.
RECURSIVE Spliced(_, _, _)
Spliced(ps, bs, i) ==
    IF i > Len(ps) THEN <<>>
    ELSE IF \E k \in DOMAIN bs : bs[k].open = i /\ ResolutionOf(k).some
         THEN LET k == CHOOSE j \in DOMAIN bs : bs[j].open = i
              IN  ResolutionOf(k).content \o LineTerminator(ps[bs[k].close])
                  \o Spliced(ps, bs, bs[k].close + 1)
         ELSE ps[i] \o Spliced(ps, bs, i + 1)

\* The loop of resolve_stdin has run to its end and the output is printed.
StdinSpliced == Exited /\ args[2] = "--stdin" /\ stdin.ok /\ parsed # <<>>

\* C20: in --stdin mode each block whose conflict is resolved is replaced in
\* place by the resolution content, each block whose conflict is not resolved
\* appears verbatim in the output, and the text outside the blocks is
\* unchanged and in its original order.
C20_SplicedInPlace ==
    StdinSpliced => stdout = Spliced(SplitInclusive(input), TextBlocks, 1)

\* What the code does: the output is the splice when the input has no "\r"
\* and the text of each block occurs in it only once.
C20_SplicedWhenFound ==
    (/\ StdinSpliced
     /\ \A i \in DOMAIN input : input[i] # CR
     /\ \A k \in DOMAIN parsed : CountMatches(input, parsed[k].full_marker) = 1)
        => stdout = Spliced(SplitInclusive(input), TextBlocks, 1)

\* What the code does on an input whose lines all end in "\r\n": no block
\* is replaced, the output is the input.
C20_CRLFNotReplaced ==
    (/\ StdinSpliced
     /\ \A i \in DOMAIN input : input[i] = NL => (i > 1 /\ input[i - 1] = CR))
        => stdout = input

\* The text of the first block, which is resolved, occurs again inside the
\* second block, which is not: the second block is rewritten too.
C20_Witness ==
    /\ StdinSpliced
    /\ \A i \in DOMAIN input : input[i] # CR
    /\ Len(parsed) = 2
    /\ ResolutionOf(1).some
    /\ ~ResolutionOf(2).some
    /\ CountMatches(input, parsed[1].full_marker) = 2
    /\ CountMatches(stdout, parsed[2].full_marker) = 0
    /\ exit_code = 1

----------------------------------------------------------------------------
(* The resolver pipeline: resolve_conflict *)

\* The tags of strategies_tried in the order the strategies run.
FullOrder == <<"PatternRule", "Structural", "SearchBased">>

\* The order for a configuration: the structural strategy runs only with a
\* language.
ConfiguredOrder(lang) ==
    IF lang = "None" THEN <<"PatternRule", "SearchBased">> ELSE FullOrder

\* ResolverConfig.language: none, or a language tag.
Languages == {"None", "Rust"}

\* What a strategy returns: no resolution, or a resolution with its content
\* and strategy tag.
NoOutput == [some |-> FALSE, content |-> <<>>, strategy |-> "None"]
Resolution(content, strategy) == [some |-> TRUE, content |-> content, strategy |-> strategy]

\* The sides of the conflicts given to resolve_conflict.
PipeTexts == {<<>>, <<"a">>, <<"b">>, <<"a", NL, "b">>}

\* The lines ls without the repetitions of a line.
RECURSIVE Dedup(_, _)
Dedup(seen, ls) ==
    IF ls = <<>> THEN <<>>
    ELSE IF \E k \in DOMAIN seen : seen[k] = ls[1] THEN Dedup(seen, Tail(ls))
    ELSE <<ls[1]>> \o Dedup(Append(seen, ls[1]), Tail(ls))

\* The ordered union of the lines of l and r, by first appearance.
LineUnion(l, r) == Join(Dedup(<<>>, Lines(l) \o Lines(r)), <<NL>>)

\* What the pattern rules may return: the convergent rule and the one-sided
\* rule decide when they apply; the whitespace, prefix/suffix and list-union
\* rules return one of the two sides or their union when they match.
PatternOutputs(b, l, r) ==
    IF l = r THEN {Resolution(l, "Convergent")}
    ELSE IF l = b THEN {Resolution(r, "PatternRule")}
    ELSE IF r = b THEN {Resolution(l, "PatternRule")}
    ELSE {NoOutput, Resolution(l, "PatternRule"), Resolution(r, "PatternRule"),
          Resolution(LineUnion(l, r), "PatternRule")}

\* What the structural strategy may return: nothing, or the reconstructed text.
StructuralOutputs(b, l, r) == {NoOutput, Resolution(LineUnion(l, r), "Structural")}

\* The candidates of the search strategy, in their stable order: both
\* concatenations, the line union, accept-left, accept-right, the base.
SearchCandidates(b, l, r) ==
    <<Resolution(l \o r, "SearchBased"), Resolution(r \o l, "SearchBased"),
      Resolution(LineUnion(l, r), "SearchBased"), Resolution(l, "SearchBased"),
      Resolution(r, "SearchBased"), Resolution(b, "SearchBased")>>

\* What the search strategy may return: the highest-scoring candidate, or
\* nothing when its score is below the threshold.
SearchOutputs(b, l, r) ==
    {NoOutput} \cup {SearchCandidates(b, l, r)[k] : k \in 1..6}

\* A strategy's run in the history: its tag and what it returned.
Run(by, out) == [by |-> by, out |-> out]

InitPipeline ==
    /\ language \in Languages
    /\ \E b \in PipeTexts, l \in PipeTexts, r \in PipeTexts : record = ConflictRecordOf(b, l, r)
    /\ outputs = <<>>
    /\ hi = 0
    /\ pc = "patterns"
    /\ Diff3Idle
    /\ mirror = NoResult
    /\ HttpIdle
    /\ ParseIdle
    /\ CliIdle
    /\ StdinIdle

\* Step 1: run the pattern rules; a resolution is recorded and the record
\* returned, otherwise PatternRule is recorded in strategies_tried.
RunPatterns ==
    /\ pc = "patterns"
    /\ \E d \in PatternOutputs(record.base, record.left, record.right) :
          /\ outputs' = Append(outputs, Run("PatternRule", d))
          /\ IF d.some
             THEN /\ record' = [record EXCEPT !.resolution = d]
                  /\ pc' = "returned"
             ELSE /\ record' = [record EXCEPT !.strategies_tried = Append(@, "PatternRule")]
                  /\ pc' = IF language # "None" THEN "structural" ELSE "search"
    /\ UNCHANGED <<language, hi, diff3_vars, mirror, http_vars, parse_vars, cli_vars, stdin_vars>>

\* Variant of RunStructural: a structural resolution does not end the call,
\* the search strategy runs after it.
RunStructuralThenSearch ==
    /\ pc = "structural"
    /\ \E e \in StructuralOutputs(record.base, record.left, record.right) :
          /\ outputs' = Append(outputs, Run("Structural", e))
          /\ record' = [record EXCEPT !.strategies_tried = Append(@, "Structural"),
                                      !.resolution = e]
          /\ pc' = "search"
    /\ UNCHANGED <<language, hi, diff3_vars, mirror, http_vars, parse_vars, cli_vars, stdin_vars>>

\* Step 2, with a language configured: run the structural strategy and record
\* Structural in strategies_tried; a resolution it returns is the record's.
RunStructural ==
    /\ pc = "structural"
    /\ \E e \in StructuralOutputs(record.base, record.left, record.right) :
          /\ outputs' = Append(outputs, Run("Structural", e))
          /\ record' = [record EXCEPT !.strategies_tried = Append(@, "Structural"),
                                      !.resolution = e]
          /\ pc' = IF e.some THEN "returned" ELSE "search"
    /\ UNCHANGED <<language, hi, diff3_vars, mirror, http_vars, parse_vars, cli_vars, stdin_vars>>

\* Steps 3 and 4: run the search strategy, record SearchBased, merge its
\* candidates into the record; the resolution is the first accepted output.
RunSearch ==
    /\ pc = "search"
    /\ \E f \in SearchOutputs(record.base, record.left, record.right) :
          /\ outputs' = Append(outputs, Run("SearchBased", f))
          /\ record' = [record EXCEPT
                           !.strategies_tried = Append(@, "SearchBased"),
                           !.candidates = @ \o SearchCandidates(record.base, record.left,
                                                                record.right),
                           !.resolution = IF @.some THEN @ ELSE f]
          /\ pc' = "returned"
    /\ UNCHANGED <<language, hi, diff3_vars, mirror, http_vars, parse_vars, cli_vars, stdin_vars>>

NextPipeline == RunPatterns \/ RunStructural \/ RunSearch

\* resolve_conflict on every conflict of PipeTexts, with and without a language.
SpecPipeline == InitPipeline /\ [][NextPipeline]_vars

----------------------------------------------------------------------------
(* C21 - C22: the order of the strategies and the audit trail *)

IsPrefix(p, q) == Len(p) <= Len(q) /\ SubSeq(q, 1, Len(p)) = p

\* The runs that returned a resolution.
Accepted == {j \in DOMAIN outputs : outputs[j].out.some}

C22_PatternRuleRecorded ==
    pc = "returned" =>
        /\ \E k \in DOMAIN record.strategies_tried : record.strategies_tried[k] = "PatternRule"
        /\ (~outputs[1].out.some /\ language = "None") =>
              /\ \E k \in DOMAIN record.strategies_tried :
                    record.strategies_tried[k] = "SearchBased"
              /\ record.candidates # <<>>

\* What the pipeline does: PatternRule is recorded exactly when the pattern
\* rules returned no resolution, and then, without a language, SearchBased is
\* recorded and the candidates list is not empty.
C22_RecordedUnlessMatched ==
    pc = "returned" =>
        /\ (\E k \in DOMAIN record.strategies_tried : record.strategies_tried[k] = "PatternRule")
              <=> ~outputs[1].out.some
        /\ (~outputs[1].out.some /\ language = "None") =>
              /\ record.strategies_tried = <<"PatternRule", "SearchBased">>
              /\ record.candidates # <<>>

\* The call returned at the pattern rules: nothing is recorded as tried.
C22_Witness ==
    /\ pc = "returned"
    /\ outputs[1].out.some
    /\ outputs[1].out.strategy = "PatternRule"
    /\ record.strategies_tried = <<>>
    /\ record.candidates = <<>>

----------------------------------------------------------------------------
(* The resolver pipeline: resolve_file *)

MaxFileLines == 1

MaxEditedLines == 3

\* The record after each step of resolve_conflict, as RunPatterns,
\* RunStructural and RunSearch leave it.
AfterPatterns(rec, d) ==
    IF d.some THEN [rec EXCEPT !.resolution = d]
    ELSE [rec EXCEPT !.strategies_tried = Append(@, "PatternRule")]

AfterStructural(rec, e) ==
    [rec EXCEPT !.strategies_tried = Append(@, "Structural"), !.resolution = e]

AfterSearch(rec, f) ==
    [rec EXCEPT !.strategies_tried = Append(@, "SearchBased"),
                !.candidates = @ \o SearchCandidates(rec.base, rec.left, rec.right),
                !.resolution = IF @.some THEN @ ELSE f]

\* The records resolve_conflict(b, l, r) may return with the language lang.
resolve_conflict(lang, b, l, r) ==
    LET searched(rec) == {AfterSearch(rec, f) : f \in SearchOutputs(b, l, r)}
        structured(rec) ==
            UNION {IF e.some THEN {AfterStructural(rec, e)}
                   ELSE searched(AfterStructural(rec, e)) : e \in StructuralOutputs(b, l, r)}
    IN  UNION {IF d.some THEN {AfterPatterns(ConflictRecordOf(b, l, r), d)}
               ELSE IF lang # "None"
                    THEN structured(AfterPatterns(ConflictRecordOf(b, l, r), d))
                    ELSE searched(AfterPatterns(ConflictRecordOf(b, l, r), d))
               : d \in PatternOutputs(b, l, r)}

\* The text a resolution is spliced as: its content as a line block.
SpliceResolution(rec) == EmitSide(rec.resolution.content)

\* The sides of a record as the region given to the emitter.
RegionOf(rec) == [base |-> rec.base, left |-> rec.left, right |-> rec.right]

\* What a side makes of one base line "a": it keeps it, deletes it, or
\* replaces it by "b".
LineEdits == {<<<<"a">>>>, <<>>, <<<<"b">>>>}

\* The scenarios whose base is n lines "a" and whose sides edit it line by line.
EditedScenarios(n) ==
    {<<TextOf([k \in 1..n |-> <<"a">>], <<NL>>, TRUE),
       TextOf(Flatten(le), <<NL>>, TRUE),
       TextOf(Flatten(re), <<NL>>, TRUE)>> : le \in [1..n -> LineEdits], re \in [1..n -> LineEdits]}

\* The scenarios given to resolve_file: every scenario of up to MaxFileLines
\* lines a side, and the line-by-line edits of a base of MaxEditedLines lines.
FileScenarios ==
    {<<b, l, r>> : b \in Texts(MaxFileLines), l \in Texts(MaxFileLines), r \in Texts(MaxFileLines)}
    \cup EditedScenarios(MaxEditedLines)

InitFile ==
    /\ \E sc \in FileScenarios : base = sc[1] /\ left = sc[2] /\ right = sc[3]
    /\ language \in Languages
    /\ base_lines = <<>>
    /\ left_edits = <<>>
    /\ right_edits = <<>>
    /\ bi = 0
    /\ lei = 0
    /\ rei = 0
    /\ hunks = <<>>
    /\ last = NoIteration
    /\ iters = 0
    /\ panicked = FALSE
    /\ coalesced = <<>>
    /\ result = NoResult
    /\ conflicts = <<>>
    /\ record = ConflictRecordOf(<<>>, <<>>, <<>>)
    /\ outputs = <<>>
    /\ hi = 0
    /\ mirror = NoResult
    /\ HttpIdle
    /\ pc = "start"
    /\ ParseIdle
    /\ CliIdle
    /\ StdinIdle

\* Variant of ResolveHunk: all_resolved is the outcome of the last conflict
\* hunk only.
ResolveHunkLastOutcome ==
    /\ pc = "hunks"
    /\ hi < Len(coalesced)
    /\ \E hunk \in {coalesced[hi + 1]} :
          IF hunk.tag = "Conflict"
          THEN \E rec \in resolve_conflict(language, Join(hunk.base, <<NL>>),
                                           Join(hunk.left, <<NL>>), Join(hunk.right, <<NL>>)) :
                  /\ \A k \in DOMAIN file_result.conflicts :
                        RegionOf(file_result.conflicts[k]) = RegionOf(rec)
                            => file_result.conflicts[k] = rec
                  /\ file_result' =
                        [conflicts |-> Append(file_result.conflicts, rec),
                         all_resolved |-> rec.resolution.some,
                         merged_content |->
                             file_result.merged_content
                             \o (IF rec.resolution.some THEN SpliceResolution(rec)
                                 ELSE EmitMarkers(RegionOf(rec)))]
          ELSE file_result' = [file_result EXCEPT !.merged_content = @ \o PushLines(hunk.lines)]
    /\ hi' = hi + 1
    /\ UNCHANGED <<language, record, outputs, diff3_vars, mirror, http_vars, parse_vars, stdin_vars, pc,
                   args, check_mode, file_args, read_log, resolver_calls, writes, stdout,
                   stderr, exit_code>>

\* resolve_file, one hunk of diff3_hunks, left to right: the lines of a hunk
\* without conflict are appended; a Conflict hunk is given to
\* resolve_conflict, its record is appended to conflicts, its resolution is
\* spliced at the hunk's position or, without one, the hunk is emitted as a
\* marker block and all_resolved becomes false.
ResolveHunk ==
    /\ pc = "hunks"
    /\ hi < Len(coalesced)
    /\ \E hunk \in {coalesced[hi + 1]} :
          IF hunk.tag = "Conflict"
          THEN \E rec \in resolve_conflict(language, Join(hunk.base, <<NL>>),
                                           Join(hunk.left, <<NL>>), Join(hunk.right, <<NL>>)) :
                  /\ \A k \in DOMAIN file_result.conflicts :
                        RegionOf(file_result.conflicts[k]) = RegionOf(rec)
                            => file_result.conflicts[k] = rec
                  /\ file_result' =
                        [conflicts |-> Append(file_result.conflicts, rec),
                         all_resolved |-> file_result.all_resolved /\ rec.resolution.some,
                         merged_content |->
                             file_result.merged_content
                             \o (IF rec.resolution.some THEN SpliceResolution(rec)
                                 ELSE EmitMarkers(RegionOf(rec)))]
          ELSE file_result' = [file_result EXCEPT !.merged_content = @ \o PushLines(hunk.lines)]
    /\ hi' = hi + 1
    /\ UNCHANGED <<language, record, outputs, diff3_vars, mirror, http_vars, parse_vars, stdin_vars, pc,
                   args, check_mode, file_args, read_log, resolver_calls, writes, stdout,
                   stderr, exit_code>>

\* resolve_file returns the FileResolution.
ReturnFile ==
    /\ pc = "hunks"
    /\ hi = Len(coalesced)
    /\ pc' = "file"
    /\ UNCHANGED <<diff3_vars, aux_vars>>

NextFile == Diff3Start \/ WalkStep \/ WalkExit \/ ResolveHunk \/ ReturnFile

\* resolve_file on every scenario of FileScenarios, with and without a language.
SpecFile == InitFile /\ [][NextFile]_vars

----------------------------------------------------------------------------
(* C23: all_resolved and the unresolved hunks of resolve_file *)

\* The conflict records without a resolution, in order.
Unresolved(cs) == SelectSeq(cs, LAMBDA rec : ~rec.resolution.some)

\* C23: for every FileResolution returned by resolve_file, all_resolved is
\* true exactly when every record of conflicts has a resolution; a file whose
\* hunks hold no Conflict is returned with all_resolved true; every record
\* without a resolution stands in merged_content as a standard marker block,
\* which the marker parser reads back with the record's three sides.
C23_AllResolved ==
    pc = "file" =>
        /\ file_result.all_resolved
              <=> \A k \in DOMAIN file_result.conflicts : file_result.conflicts[k].resolution.some
        /\ Len(file_result.conflicts) = Len(ConflictHunks)
        /\ ~HasConflict(coalesced) => file_result.all_resolved
        /\ LET blocks == parse_conflict_markers(file_result.merged_content)
               open == Unresolved(file_result.conflicts)
           IN  /\ Len(blocks) = Len(open)
               /\ \A k \in DOMAIN open :
                     /\ blocks[k].base = open[k].base
                     /\ blocks[k].left = open[k].left
                     /\ blocks[k].right = open[k].right
                     /\ blocks[k].full_marker \o <<NL>> = EmitMarkers(RegionOf(open[k]))

C23_Witness ==
    /\ pc = "file"
    /\ Len(file_result.conflicts) = 2
    /\ file_result.conflicts[1].resolution.some
    /\ ~file_result.conflicts[2].resolution.some
    /\ ~file_result.all_resolved
    /\ Len(parse_conflict_markers(file_result.merged_content)) = 1

----------------------------------------------------------------------------
(* C25: diff3_merge with its sides exchanged *)

MaxExchangeLines == 2

InitExchange ==
    /\ base \in Texts(MaxExchangeLines)
    /\ left \in Texts(MaxExchangeLines)
    /\ right \in Texts(MaxExchangeLines)
    /\ base_lines = <<>>
    /\ left_edits = <<>>
    /\ right_edits = <<>>
    /\ bi = 0
    /\ lei = 0
    /\ rei = 0
    /\ hunks = <<>>
    /\ last = NoIteration
    /\ iters = 0
    /\ panicked = FALSE
    /\ coalesced = <<>>
    /\ result = NoResult
    /\ conflicts = <<>>
    /\ pc = "start"
    /\ AuxIdle

\* diff3_merge has returned for (base, left, right): the call is made again
\* with the sides exchanged.  The diff of the base and a side is a function of
\* the two texts, so the edits of each side are those of the first call.
ExchangeSides ==
    /\ pc = "merged"
    /\ mirror = NoResult
    /\ mirror' = result
    /\ left' = right
    /\ right' = left
    /\ left_edits' = right_edits
    /\ right_edits' = left_edits
    /\ bi' = 0
    /\ lei' = 0
    /\ rei' = 0
    /\ hunks' = <<>>
    /\ last' = NoIteration
    /\ iters' = 0
    /\ coalesced' = <<>>
    /\ result' = NoResult
    /\ pc' = "walk"
    /\ UNCHANGED <<base, base_lines, panicked, conflicts, parse_vars, cli_vars, stdin_vars,
                   pipe_vars, http_vars>>

NextExchange == Diff3Start \/ WalkStep \/ WalkExit \/ Diff3Merge \/ ExchangeSides

\* diff3_merge(base, left, right) followed by diff3_merge(base, right, left).
SpecExchange == InitExchange /\ [][NextExchange]_vars

\* The second call has returned.
BothMerged == pc = "merged" /\ mirror # NoResult

\* C25: diff3_merge(b, l, r) is Resolved(t) exactly when diff3_merge(b, r, l)
\* is Resolved(t), with the same text; when one is a Conflict the other is the
\* Conflict with the same base and with left and right exchanged.
C25_Symmetric ==
    BothMerged =>
        /\ result.tag = mirror.tag
        /\ result.content = mirror.content
        /\ result.base = mirror.base
        /\ result.left = mirror.right
        /\ result.right = mirror.left

C25_Witness ==
    /\ BothMerged
    /\ result.tag = "Conflict"
    /\ result.left # result.right
    /\ result.left = <<>>
    /\ result.base # <<>>
    /\ left # base
    /\ Len(base_lines) >= 2

-----------------------------------------------------------------------------
(* C26: the HTTP chat handler (tinyclaw-http), several requests at a time *)

MaxRequests == 2

\* The requests served concurrently, each by its own call of chat_handler.
Requests == 1..MaxRequests

\* A file of the outgoing queue: its path and the OutgoingMessage it holds.
OutgoingFile(prefix, id, message) ==
    [path |-> <<prefix, id>>, message_id |-> id, message |-> message]

\* The response the queue processor writes for the incoming message with the
\* given id: an OutgoingMessage that carries the id of the message it answers.
AnswerTo(id) == OutgoingFile("http_", id, <<"answer", id>>)

\* Files that are in the outgoing queue before any request is made: a response
\* left by an earlier request, and a response of another channel.
LeftoverFiles == {OutgoingFile("http_", 0, <<"answer", 0>>),
                  OutgoingFile("discord_", 0, <<"answer", 0>>)}

NoReply == [kind |-> "none", message |-> <<>>, message_id |-> 0]
TimeoutReply(id) ==
    [kind |-> "ok", message |-> <<"Request timed out waiting for response.">>, message_id |-> id]
ResponseReply(response, id) ==
    [kind |-> "ok", message |-> response.message, message_id |-> id]
ErrorReply == [kind |-> "error", message |-> <<>>, message_id |-> 0]

\* generate_message_id(): an id no earlier call returned.
GenerateMessageId == 1 + Cardinality({r \in Requests : message_id[r] # 0})

\* QueueDir::poll_outgoing(prefix): the files whose name starts with prefix.
poll_outgoing(prefix) == {f \in outgoing : f.path[1] = prefix}

InitChat ==
    /\ handler = [r \in Requests |-> "start"]
    /\ message_id = [r \in Requests |-> 0]
    /\ responses = [r \in Requests |-> {}]
    /\ incoming = {}
    /\ outgoing \in SUBSET LeftoverFiles
    /\ acks = <<>>
    /\ replies = [r \in Requests |-> NoReply]
    /\ pc = "serve"
    /\ Diff3Idle
    /\ mirror = NoResult
    /\ PipeIdle
    /\ ParseIdle
    /\ CliIdle
    /\ StdinIdle

ChatUnchanged == UNCHANGED <<diff3_vars, mirror, pipe_vars, parse_vars, cli_vars, stdin_vars, pc>>

\* message_id = generate_message_id(); state.queue.enqueue(&incoming).await?
Enqueue(r) ==
    /\ handler[r] = "start"
    /\ message_id' = [message_id EXCEPT ![r] = GenerateMessageId]
    /\ \E ok \in BOOLEAN :
          IF ok
          THEN /\ incoming' = incoming \cup {message_id'[r]}
               /\ handler' = [handler EXCEPT ![r] = "loop"]
               /\ UNCHANGED replies
          ELSE /\ handler' = [handler EXCEPT ![r] = "returned"]
               /\ replies' = [replies EXCEPT ![r] = ErrorReply]
               /\ UNCHANGED incoming
    /\ UNCHANGED <<responses, outgoing, acks>>
    /\ ChatUnchanged

\* The queue processor answers an incoming message: it writes the response to
\* the outgoing queue.
Process ==
    /\ \E id \in incoming :
          /\ incoming' = incoming \ {id}
          /\ outgoing' = outgoing \cup {AnswerTo(id)}
    /\ UNCHANGED <<handler, message_id, responses, acks, replies>>
    /\ ChatUnchanged

\* The head of the loop when start.elapsed() > timeout: the timeout message is
\* returned.
TimedOut(r) ==
    /\ handler[r] = "loop"
    /\ handler' = [handler EXCEPT ![r] = "returned"]
    /\ replies' = [replies EXCEPT ![r] = TimeoutReply(message_id[r])]
    /\ UNCHANGED <<message_id, responses, incoming, outgoing, acks>>
    /\ ChatUnchanged

\* responses = state.queue.poll_outgoing("http_").await?
Poll(r) ==
    /\ handler[r] = "loop"
    /\ \E ok \in BOOLEAN :
          IF ok
          THEN /\ responses' = [responses EXCEPT ![r] = poll_outgoing("http_")]
               /\ handler' = [handler EXCEPT ![r] = "scan"]
               /\ UNCHANGED replies
          ELSE /\ handler' = [handler EXCEPT ![r] = "returned"]
               /\ replies' = [replies EXCEPT ![r] = ErrorReply]
               /\ UNCHANGED responses
    /\ UNCHANGED <<message_id, incoming, outgoing, acks>>
    /\ ChatUnchanged

\* Variant of IsOwn: every polled response is taken.
IsOwnAlways(response, id) == TRUE

\* if response.message_id == message_id
IsOwn(response, id) == response.message_id = id

\* The loop over the polled responses finds one with the request's id:
\* ack_outgoing(&path).await? removes its file and the response is returned.
Ack(r) ==
    /\ handler[r] = "scan"
    /\ \E f \in responses[r], ok \in BOOLEAN :
          /\ IsOwn(f, message_id[r])
          /\ handler' = [handler EXCEPT ![r] = "returned"]
          /\ IF ok /\ f \in outgoing
             THEN /\ outgoing' = outgoing \ {f}
                  /\ acks' = Append(acks, [request |-> r, file |-> f])
                  /\ replies' = [replies EXCEPT ![r] = ResponseReply(f, message_id[r])]
             ELSE /\ replies' = [replies EXCEPT ![r] = ErrorReply]
                  /\ UNCHANGED <<outgoing, acks>>
    /\ UNCHANGED <<message_id, responses, incoming>>
    /\ ChatUnchanged

\* The loop over the polled responses finds none with the request's id:
\* tokio::time::sleep(poll_interval).await, then the head of the loop again.
Sleep(r) ==
    /\ handler[r] = "scan"
    /\ \A f \in responses[r] : ~IsOwn(f, message_id[r])
    /\ handler' = [handler EXCEPT ![r] = "loop"]
    /\ UNCHANGED <<message_id, responses, incoming, outgoing, acks, replies>>
    /\ ChatUnchanged

NextChat ==
    \/ \E r \in Requests : Enqueue(r)
    \/ Process
    \/ \E r \in Requests : TimedOut(r)
    \/ \E r \in Requests : Poll(r)
    \/ \E r \in Requests : Ack(r)
    \/ \E r \in Requests : Sleep(r)

\* POST /v1/chat served for MaxRequests requests at a time.
SpecChat == InitChat /\ [][NextChat]_vars

\* The files request r acknowledged.
AckedBy(r) == {acks[k].file : k \in {j \in DOMAIN acks : acks[j].request = r}}

\* C26: a request acknowledges a file of the outgoing queue only when the
\* response in it carries the message_id the request generated, so no request
\* acknowledges or returns the response to another request's message; a
\* request that returns the timeout message has acknowledged nothing.
C26_OwnResponseOnly ==
    \A r \in Requests :
        /\ \A f \in AckedBy(r) : f = AnswerTo(message_id[r])
        /\ \A q \in Requests \ {r} : AnswerTo(message_id[q]) \notin AckedBy(r)
        /\ (handler[r] = "returned" /\ replies[r].kind = "ok") =>
              /\ replies[r].message_id = message_id[r]
              /\ IF AckedBy(r) = {}
                 THEN replies[r] = TimeoutReply(message_id[r])
                 ELSE replies[r] = ResponseReply(AnswerTo(message_id[r]), message_id[r])
        /\ replies[r] = TimeoutReply(message_id[r]) => AckedBy(r) = {}
        /\ handler[r] # "returned" => AckedBy(r) = {}

\* Two requests polled the queue while it held the responses to both: one
\* returned its response, the other its timeout message, and a leftover
\* response is still in the queue.
C26_Witness ==
    \E r \in Requests : \E q \in Requests \ {r} :
        /\ handler[r] = "returned"
        /\ handler[q] = "returned"
        /\ AnswerTo(message_id[q]) \in responses[r]
        /\ AnswerTo(message_id[r]) \in responses[q]
        /\ AckedBy(r) = {AnswerTo(message_id[r])}
        /\ replies[q] = TimeoutReply(message_id[q])
        /\ OutgoingFile("http_", 0, <<"answer", 0>>) \in responses[r]

====
